---- MODULE Spec2Model ----
(***************************************************************************)
(* GEDCOM parser (src/lib/gedcom-parser.js) and tree builder               *)
(* (src/lib/tree-builder.js) as a state machine.                           *)
(*                                                                         *)
(* A JavaScript string is modelled as a sequence of one-character strings, *)
(* so that the line grammar, the trimming and the @...@ token matching are *)
(* computed on characters as the code computes them.  A JavaScript Map is  *)
(* modelled as a sequence of records in insertion order.                   *)
(***************************************************************************)
EXTENDS Integers, Sequences, FiniteSets, TLC

(***************************************************************************)
(* Bounds of the exploration.                                              *)
(***************************************************************************)
MaxLines == 3

(***************************************************************************)
(* Characters.                                                             *)
(***************************************************************************)
DigitChars == {"0", "1", "2", "3", "4", "5", "6", "7", "8", "9"}

UpperChars == {"A", "B", "C", "D", "E", "F", "G", "H", "I", "J", "K", "L", "M",
               "N", "O", "P", "Q", "R", "S", "T", "U", "V", "W", "X", "Y", "Z"}

SpaceChars == {" ", "\t"}

LineBreakChars == {"\n", "\r"}

TagStartChars == UpperChars \cup {"_"}

TagChars == UpperChars \cup DigitChars \cup {"_"}

DigitValue(c) ==
    CASE c = "0" -> 0 [] c = "1" -> 1 [] c = "2" -> 2 [] c = "3" -> 3
      [] c = "4" -> 4 [] c = "5" -> 5 [] c = "6" -> 6 [] c = "7" -> 7
      [] c = "8" -> 8 [] c = "9" -> 9

\* null of a field that otherwise holds a string: no string of the program
\* has an element that is not a single character
NULL == <<"null">>

\* undefined, the value of an optional chain that found no match
UNDEFINED == <<"undefined">>

\* JavaScript truthiness of a string-or-null-or-undefined value
Truthy(v) == v # NULL /\ v # UNDEFINED /\ v # <<>>

Min(a, b) == IF a < b THEN a ELSE b

(***************************************************************************)
(* String helpers.                                                         *)
(***************************************************************************)
\* String.prototype.trim, for the whitespace the model's alphabet contains
LeadingSpaces(s) ==
    IF \A i \in 1..Len(s) : s[i] \in SpaceChars \cup LineBreakChars
    THEN Len(s)
    ELSE (CHOOSE i \in 1..Len(s) :
             /\ s[i] \notin SpaceChars \cup LineBreakChars
             /\ \A j \in 1..(i - 1) : s[j] \in SpaceChars \cup LineBreakChars) - 1

TrailingSpaces(s) ==
    IF \A i \in 1..Len(s) : s[i] \in SpaceChars \cup LineBreakChars
    THEN Len(s)
    ELSE Len(s) - (CHOOSE i \in 1..Len(s) :
             /\ s[i] \notin SpaceChars \cup LineBreakChars
             /\ \A j \in (i + 1)..Len(s) : s[j] \in SpaceChars \cup LineBreakChars)

Trim(s) ==
    IF LeadingSpaces(s) = Len(s) THEN <<>>
    ELSE SubSeq(s, LeadingSpaces(s) + 1, Len(s) - TrailingSpaces(s))

\* length of the longest prefix of s, from position from, made of chars in set
RunLength(s, from, set) ==
    IF \A i \in from..Len(s) : s[i] \in set
    THEN Len(s) - from + 1
    ELSE (CHOOSE i \in from..Len(s) :
             /\ s[i] \notin set
             /\ \A j \in from..(i - 1) : s[j] \in set) - from

RECURSIVE ParseIntFrom(_, _)
ParseIntFrom(s, acc) ==
    IF s = <<>> THEN acc
    ELSE ParseIntFrom(Tail(s), 10 * acc + DigitValue(Head(s)))

\* parseInt of a string of decimal digits
ParseInt(s) == ParseIntFrom(s, 0)

\* the match of /@[^@]+@/ in s: the position of the leftmost '@' that is
\* followed by one or more non-'@' characters and a closing '@', 0 if none
XrefTokenStart(s) ==
    LET starts == {i \in 1..Len(s) :
                     /\ s[i] = "@"
                     /\ i + 1 <= Len(s)
                     /\ s[i + 1] # "@"
                     /\ \E j \in (i + 2)..Len(s) : s[j] = "@"}
    IN IF starts = {} THEN 0
       ELSE CHOOSE i \in starts : \A k \in starts : i <= k

\* value.match(/@[^@]+@/)?.[0]: the matched token, undefined when no match
MatchXrefToken(s) ==
    LET i == XrefTokenStart(s)
    IN IF i = 0 THEN UNDEFINED
       ELSE LET j == CHOOSE j \in (i + 2)..Len(s) :
                        /\ s[j] = "@"
                        /\ \A k \in (i + 1)..(j - 1) : s[k] # "@"
            IN SubSeq(s, i, j)

\* value.match(/@.+@/) is non-null: two '@' with at least one character
\* (of any kind, '@' included) between them
MatchesLooseXref(s) ==
    \E i \in 1..Len(s) : \E j \in (i + 2)..Len(s) : s[i] = "@" /\ s[j] = "@"

(***************************************************************************)
(* GedcomParser.preprocessLines and parseLine.                             *)
(***************************************************************************)
\* positions where a line terminator starts, after \r\n and \r became \n
BreakStarts(content) ==
    {i \in 1..Len(content) :
        \/ content[i] = "\r"
        \/ content[i] = "\n" /\ (i = 1 \/ content[i - 1] # "\r")}

BreakLength(content, i) ==
    IF content[i] = "\r" /\ i < Len(content) /\ content[i + 1] = "\n" THEN 2 ELSE 1

\* the start of the k-th line terminator
NthBreak(content, k) ==
    CHOOSE b \in BreakStarts(content) :
        Cardinality({x \in BreakStarts(content) : x < b}) = k - 1

\* content.replace(/\r\n/g, '\n').replace(/\r/g, '\n').split('\n')
SplitLines(content) ==
    LET n == Cardinality(BreakStarts(content)) + 1
    IN [k \in 1..n |->
          SubSeq(content,
                 IF k = 1 THEN 1
                 ELSE NthBreak(content, k - 1)
                      + BreakLength(content, NthBreak(content, k - 1)),
                 IF k = n THEN Len(content)
                 ELSE NthBreak(content, k) - 1)]

\* The match of /^(\d+)\s*(@[^@]+@)?\s*([A-Z_][A-Z0-9_]*)\s*(.*)?$/ on a
\* trimmed line.  Every quantifier is greedy and no shorter choice can make
\* a later group match (a digit, a blank or '@' never starts a tag), so the
\* match is the one found by taking each group as long as possible.
LineMatchTag(line, nd, xtok, p3) ==
    IF nd >= 1 /\ p3 <= Len(line) /\ line[p3] \in TagStartChars
    THEN [matched |-> TRUE,
          level   |-> SubSeq(line, 1, nd),
          xref    |-> xtok,
          tag     |-> SubSeq(line, p3, p3 + RunLength(line, p3, TagChars) - 1),
          value   |-> SubSeq(line,
                             p3 + RunLength(line, p3, TagChars)
                                + RunLength(line, p3 + RunLength(line, p3, TagChars),
                                            SpaceChars),
                             Len(line))]
    ELSE [matched |-> FALSE, level |-> <<>>, xref |-> <<>>, tag |-> <<>>,
          value |-> <<>>]

\* the groups after the optional cross-reference xtok, which ends before p2
LineMatchAfterXref(line, nd, xtok, p2) ==
    LineMatchTag(line, nd, xtok, p2 + RunLength(line, p2, SpaceChars))

\* the groups from position p1, where the optional cross-reference starts
LineMatchXref(line, nd, p1) ==
    IF p1 <= Len(line) /\ XrefTokenStart(SubSeq(line, p1, Len(line))) = 1
    THEN LineMatchAfterXref(line, nd, MatchXrefToken(SubSeq(line, p1, Len(line))),
                            p1 + Len(MatchXrefToken(SubSeq(line, p1, Len(line)))))
    ELSE LineMatchAfterXref(line, nd, <<>>, p1)

\* the groups after the nd digits of the level
LineMatchAfterLevel(line, nd) ==
    LineMatchXref(line, nd, nd + 1 + RunLength(line, nd + 1, SpaceChars))

LineMatch(line) ==
    LineMatchAfterLevel(line, RunLength(line, 1, DigitChars))

\* parseLine: the parsed line object; matched = FALSE stands for null
parseLine(line, lineNumber) ==
    LET m == LineMatch(line)
    IN IF ~m.matched
       THEN [matched |-> FALSE, level |-> 0, xref |-> NULL, tag |-> <<>>,
             value |-> <<>>, lineNumber |-> lineNumber]
       ELSE [matched    |-> TRUE,
             level      |-> ParseInt(m.level),
             xref       |-> IF m.xref = <<>> THEN NULL ELSE m.xref,
             tag        |-> m.tag,
             value      |-> IF m.value # <<>> THEN Trim(m.value) ELSE <<>>,
             lineNumber |-> lineNumber]

\* the warning parseLine pushes for a line that fails the grammar
InvalidFormatWarning(line, lineNumber) ==
    [kind |-> "Invalid GEDCOM format", lineNumber |-> lineNumber, line |-> line]

\* a non-blank line that matches the grammar, and one that does not
KeptLine(e) == e.line # <<>> /\ e.parsed.matched

DroppedLine(e) == e.line # <<>> /\ ~e.parsed.matched

\* a preprocessing that stops at the first line failing the grammar
preprocessLines_StopAtInvalid(content) ==
    LET rawLines == SplitLines(content)
        seen     == [i \in 1..Len(rawLines) |->
                       [line   |-> Trim(rawLines[i]),
                        parsed |-> parseLine(Trim(rawLines[i]), i)]]
        invalid  == {i \in 1..Len(seen) :
                       seen[i].line # <<>> /\ ~seen[i].parsed.matched}
        stop     == IF invalid = {} THEN Len(seen) + 1
                    ELSE CHOOSE i \in invalid : \A j \in invalid : i <= j
        kept     == SelectSeq(SubSeq(seen, 1, stop - 1), KeptLine)
    IN [lines    |-> [k \in 1..Len(kept) |-> kept[k].parsed],
        warnings |-> IF invalid = {} THEN <<>>
                     ELSE << InvalidFormatWarning(seen[stop].line, stop) >>]

\* preprocessLines: the parsed lines and the warnings pushed on the way, for
\* the non-blank lines in order
preprocessLines(content) ==
    LET rawLines == SplitLines(content)
        seen     == [i \in 1..Len(rawLines) |->
                       [line   |-> Trim(rawLines[i]),
                        parsed |-> parseLine(Trim(rawLines[i]), i)]]
        kept     == SelectSeq(seen, KeptLine)
        dropped  == SelectSeq(seen, DroppedLine)
    IN [lines    |-> [k \in 1..Len(kept) |-> kept[k].parsed],
        warnings |-> [k \in 1..Len(dropped) |->
                        InvalidFormatWarning(dropped[k].line,
                                             dropped[k].parsed.lineNumber)]]

(***************************************************************************)
(* Maps in insertion order: Map.get, Map.has, Map.set.                     *)
(***************************************************************************)
MapHas(m, id) == \E k \in 1..Len(m) : m[k].id = id

MapIndex(m, id) == CHOOSE k \in 1..Len(m) : m[k].id = id

MapGet(m, id) == m[MapIndex(m, id)]

\* Map.set: an existing key keeps its position and takes the new value
MapSet(m, rec) ==
    IF MapHas(m, rec.id)
    THEN [m EXCEPT ![MapIndex(m, rec.id)] = rec]
    ELSE Append(m, rec)

Includes(seq, x) == \E k \in 1..Len(seq) : seq[k] = x

(***************************************************************************)
(* Records.                                                                *)
(***************************************************************************)
\* an event's date is <<>> for null, else << the parsed date object >>
NoDate == <<>>

NewEvent == [date |-> NoDate, place |-> NULL, notes |-> NULL]

createIndividualRecord(xref) ==
    [id         |-> xref,
     type       |-> "individual",
     name       |-> [full |-> <<>>, given |-> <<>>, surname |-> <<>>,
                     nickname |-> <<>>, prefix |-> <<>>, suffix |-> <<>>],
     sex        |-> <<"U">>,
     birth      |-> NewEvent,
     death      |-> NewEvent,
     events     |-> <<>>,
     attributes |-> <<>>,
     families   |-> [child |-> <<>>, spouse |-> <<>>],
     notes      |-> <<>>,
     sources    |-> <<>>]

createFamilyRecord(xref) ==
    [id       |-> xref,
     type     |-> "family",
     husband  |-> NULL,
     wife     |-> NULL,
     children |-> <<>>,
     marriage |-> NewEvent,
     divorce  |-> NewEvent,
     events   |-> <<>>,
     notes    |-> <<>>,
     sources  |-> <<>>]

(***************************************************************************)
(* Tags.                                                                   *)
(***************************************************************************)
TAG_INDI == <<"I", "N", "D", "I">>
TAG_FAM == <<"F", "A", "M">>
TAG_NAME == <<"N", "A", "M", "E">>
TAG_SEX == <<"S", "E", "X">>
TAG_BIRT == <<"B", "I", "R", "T">>
TAG_DEAT == <<"D", "E", "A", "T">>
TAG_DATE == <<"D", "A", "T", "E">>
TAG_PLAC == <<"P", "L", "A", "C">>
TAG_FAMC == <<"F", "A", "M", "C">>
TAG_FAMS == <<"F", "A", "M", "S">>
TAG_NOTE == <<"N", "O", "T", "E">>
TAG_HUSB == <<"H", "U", "S", "B">>
TAG_WIFE == <<"W", "I", "F", "E">>
TAG_CHIL == <<"C", "H", "I", "L">>
TAG_MARR == <<"M", "A", "R", "R">>
TAG_DIV == <<"D", "I", "V">>

(***************************************************************************)
(* parseName and parseDate.                                                *)
(***************************************************************************)
LowerChars == {"a", "b", "c", "d", "e", "f", "g", "h", "i", "j", "k", "l", "m",
               "n", "o", "p", "q", "r", "s", "t", "u", "v", "w", "x", "y", "z"}

ToUpperChar(c) ==
    CASE c = "a" -> "A" [] c = "b" -> "B" [] c = "c" -> "C" [] c = "d" -> "D"
      [] c = "e" -> "E" [] c = "f" -> "F" [] c = "g" -> "G" [] c = "h" -> "H"
      [] c = "i" -> "I" [] c = "j" -> "J" [] c = "k" -> "K" [] c = "l" -> "L"
      [] c = "m" -> "M" [] c = "n" -> "N" [] c = "o" -> "O" [] c = "p" -> "P"
      [] c = "q" -> "Q" [] c = "r" -> "R" [] c = "s" -> "S" [] c = "t" -> "T"
      [] c = "u" -> "U" [] c = "v" -> "V" [] c = "w" -> "W" [] c = "x" -> "X"
      [] c = "y" -> "Y" [] c = "z" -> "Z" [] OTHER -> c

\* String.prototype.toUpperCase
ToUpperCase(s) == [k \in 1..Len(s) |-> ToUpperChar(s[k])]

\* the match of /\/([^\/]+)\//: position of the opening slash, 0 if none
SurnameStart(s) ==
    LET starts == {i \in 1..Len(s) :
                     /\ s[i] = "/"
                     /\ i + 1 <= Len(s)
                     /\ s[i + 1] # "/"
                     /\ \E j \in (i + 2)..Len(s) : s[j] = "/"}
    IN IF starts = {} THEN 0
       ELSE CHOOSE i \in starts : \A k \in starts : i <= k

SurnameEnd(s, i) ==
    CHOOSE j \in (i + 2)..Len(s) :
        s[j] = "/" /\ \A k \in (i + 1)..(j - 1) : s[k] # "/"

\* parseName: the individual with its name fields set from the NAME value
parseName(nameValue, individual) ==
    IF nameValue = <<>> THEN individual
    ELSE LET i == SurnameStart(nameValue)
         IN IF i # 0
            THEN LET j             == SurnameEnd(nameValue, i)
                     surname       == Trim(SubSeq(nameValue, i + 1, j - 1))
                     beforeSurname == Trim(SubSeq(nameValue, 1, i - 1))
                     afterSurname  == Trim(SubSeq(nameValue, j + 1, Len(nameValue)))
                     withName ==
                        [individual EXCEPT
                            !.name.given   = beforeSurname,
                            !.name.surname = surname,
                            !.name.full    = Trim(beforeSurname \o <<" ">> \o surname)]
                 IN IF afterSurname # <<>>
                    THEN [withName EXCEPT !.name.suffix = afterSurname]
                    ELSE withName
            ELSE [individual EXCEPT
                     !.name.given   = Trim(nameValue),
                     !.name.surname = <<>>,
                     !.name.full    = Trim(nameValue)]

DateQualifiers == {<<"A", "B", "T">>, <<"A", "F", "T">>, <<"B", "E", "F">>,
                   <<"B", "E", "T">>, <<"C", "A", "L">>, <<"E", "S", "T">>}

\* dateValue.replace(/^(ABT|AFT|BEF|BET|CAL|EST)\s+/i, '')
StripDateQualifier(dateValue) ==
    IF /\ Len(dateValue) >= 4
       /\ ToUpperCase(SubSeq(dateValue, 1, 3)) \in DateQualifiers
       /\ dateValue[4] \in SpaceChars
    THEN SubSeq(dateValue, 4 + RunLength(dateValue, 4, SpaceChars), Len(dateValue))
    ELSE dateValue

\* parseDate: null for an empty value, else the date object.  The Date the
\* code builds from the cleaned text is kept as that text.
parseDate(dateValue) ==
    IF dateValue = <<>> THEN NoDate
    ELSE << [raw     |-> dateValue,
             parsed  |-> StripDateQualifier(dateValue),
             display |-> dateValue] >>

(***************************************************************************)
(* Field dispatch.  recordStack[1] is the current record ("record"); the   *)
(* entries above it are the context markers the event tags push.           *)
(***************************************************************************)
\* a FAMC/FAMS line read for its inline cross-reference only
FamilyLinkId_InlineOnly(line) ==
    IF line.xref # NULL
    THEN [push |-> TRUE, threw |-> FALSE, id |-> line.xref]
    ELSE [push |-> FALSE, threw |-> FALSE, id |-> UNDEFINED]

\* the family id of a FAMC/FAMS line; threw: value matches /@.+@/ but not
\* /@[^@]+@/, so [0] is read from null (TypeError)
FamilyLinkId(line) ==
    IF line.xref # NULL
    THEN [push |-> TRUE, threw |-> FALSE, id |-> line.xref]
    ELSE IF MatchesLooseXref(line.value)
         THEN IF XrefTokenStart(line.value) = 0
              THEN [push |-> FALSE, threw |-> TRUE, id |-> UNDEFINED]
              ELSE [push |-> TRUE, threw |-> FALSE, id |-> MatchXrefToken(line.value)]
         ELSE [push |-> FALSE, threw |-> FALSE, id |-> UNDEFINED]

\* xref || value.match(/@[^@]+@/)?.[0]
ResolveId(line) ==
    IF line.xref # NULL THEN line.xref ELSE MatchXrefToken(line.value)

\* processIndividualField: the updated individual and stack, or threw
processIndividualField(line, individual, recordStack) ==
    LET same == [individual |-> individual, recordStack |-> recordStack, threw |-> FALSE]
    IN CASE line.tag = TAG_NAME ->
              [same EXCEPT !.individual = parseName(line.value, individual)]
         [] line.tag = TAG_SEX ->
              [same EXCEPT !.individual.sex = ToUpperCase(line.value)]
         [] line.tag = TAG_BIRT ->
              [same EXCEPT !.recordStack = Append(recordStack, "birth")]
         [] line.tag = TAG_DEAT ->
              [same EXCEPT !.recordStack = Append(recordStack, "death")]
         [] line.tag = TAG_DATE ->
              IF Includes(recordStack, "birth")
              THEN [same EXCEPT !.individual.birth.date = parseDate(line.value)]
              ELSE IF Includes(recordStack, "death")
                   THEN [same EXCEPT !.individual.death.date = parseDate(line.value)]
                   ELSE same
         [] line.tag = TAG_PLAC ->
              IF Includes(recordStack, "birth")
              THEN [same EXCEPT !.individual.birth.place = line.value]
              ELSE IF Includes(recordStack, "death")
                   THEN [same EXCEPT !.individual.death.place = line.value]
                   ELSE same
         [] line.tag = TAG_FAMC ->
              LET r == FamilyLinkId(line)
              IN IF r.threw THEN [same EXCEPT !.threw = TRUE]
                 ELSE IF r.push
                      THEN [same EXCEPT !.individual.families.child =
                                            Append(individual.families.child, r.id)]
                      ELSE same
         [] line.tag = TAG_FAMS ->
              LET r == FamilyLinkId(line)
              IN IF r.threw THEN [same EXCEPT !.threw = TRUE]
                 ELSE IF r.push
                      THEN [same EXCEPT !.individual.families.spouse =
                                            Append(individual.families.spouse, r.id)]
                      ELSE same
         [] line.tag = TAG_NOTE ->
              [same EXCEPT !.individual.notes = Append(individual.notes, line.value)]
         [] OTHER ->
              IF line.level = 1
              THEN [same EXCEPT !.individual.attributes =
                        Append(individual.attributes,
                               [tag |-> line.tag, value |-> line.value])]
              ELSE same

\* a HUSB or WIFE line that keeps a value already stored
AssignSpouse_FirstWins(stored, line) ==
    IF Truthy(stored) THEN stored ELSE ResolveId(line)

\* family.husband = ... / family.wife = ...: the value a HUSB or WIFE line
\* stores, whatever is stored already
AssignSpouse(stored, line) ==
    ResolveId(line)

\* processFamilyField: the updated family and stack
processFamilyField(line, family, recordStack) ==
    LET same == [family |-> family, recordStack |-> recordStack, threw |-> FALSE]
    IN CASE line.tag = TAG_HUSB ->
              [same EXCEPT !.family.husband = AssignSpouse(family.husband, line)]
         [] line.tag = TAG_WIFE ->
              [same EXCEPT !.family.wife = AssignSpouse(family.wife, line)]
         [] line.tag = TAG_CHIL ->
              LET childId == ResolveId(line)
              IN IF Truthy(childId)
                 THEN [same EXCEPT !.family.children = Append(family.children, childId)]
                 ELSE same
         [] line.tag = TAG_MARR ->
              [same EXCEPT !.recordStack = Append(recordStack, "marriage")]
         [] line.tag = TAG_DIV ->
              [same EXCEPT !.recordStack = Append(recordStack, "divorce")]
         [] line.tag = TAG_DATE ->
              IF Includes(recordStack, "marriage")
              THEN [same EXCEPT !.family.marriage.date = parseDate(line.value)]
              ELSE IF Includes(recordStack, "divorce")
                   THEN [same EXCEPT !.family.divorce.date = parseDate(line.value)]
                   ELSE same
         [] line.tag = TAG_PLAC ->
              IF Includes(recordStack, "marriage")
              THEN [same EXCEPT !.family.marriage.place = line.value]
              ELSE IF Includes(recordStack, "divorce")
                   THEN [same EXCEPT !.family.divorce.place = line.value]
                   ELSE same
         [] line.tag = TAG_NOTE ->
              [same EXCEPT !.family.notes = Append(family.notes, line.value)]
         [] OTHER ->
              IF line.level = 1
              THEN [same EXCEPT !.family.events =
                        Append(family.events, [tag |-> line.tag, value |-> line.value])]
              ELSE same

(***************************************************************************)
(* parseLines, one iteration of its loop.  st is the parser's state:       *)
(* individuals, families, currentRecord (a reference: type and id of the   *)
(* record under construction, type "none" for null), recordStack, threw.   *)
(***************************************************************************)
NoRecord == [type |-> "none", id |-> NULL]

ParserStart ==
    [individuals |-> <<>>, families |-> <<>>, currentRecord |-> NoRecord,
     recordStack |-> <<>>, threw |-> FALSE]

\* a stack that is never popped
AdjustStack_NoPop(recordStack, level) == recordStack

\* while (recordStack.length > level) recordStack.pop()
AdjustStack(recordStack, level) ==
    SubSeq(recordStack, 1, Min(Len(recordStack), level))

\* processSubRecord: truncate the stack to the line's level, then dispatch
processSubRecord(line, st) ==
    LET stack == AdjustStack(st.recordStack, line.level)
    IN IF st.currentRecord.type = "individual"
       THEN LET r == processIndividualField(line,
                         MapGet(st.individuals, st.currentRecord.id), stack)
            IN [st EXCEPT !.individuals = MapSet(st.individuals, r.individual),
                          !.recordStack = r.recordStack,
                          !.threw       = r.threw]
       ELSE LET r == processFamilyField(line,
                         MapGet(st.families, st.currentRecord.id), stack)
            IN [st EXCEPT !.families    = MapSet(st.families, r.family),
                          !.recordStack = r.recordStack,
                          !.threw       = r.threw]

\* the body of the loop of parseLines for one line
parseLinesStep(line, st) ==
    IF line.level = 0
    THEN IF line.tag = TAG_INDI /\ line.xref # NULL
         THEN [st EXCEPT !.individuals   = MapSet(st.individuals,
                                                  createIndividualRecord(line.xref)),
                         !.currentRecord = [type |-> "individual", id |-> line.xref],
                         !.recordStack   = <<"record">>]
         ELSE IF line.tag = TAG_FAM /\ line.xref # NULL
              THEN [st EXCEPT !.families      = MapSet(st.families,
                                                       createFamilyRecord(line.xref)),
                              !.currentRecord = [type |-> "family", id |-> line.xref],
                              !.recordStack   = <<"record">>]
              ELSE [st EXCEPT !.currentRecord = NoRecord,
                              !.recordStack   = <<"null">>]
    ELSE IF st.currentRecord.type # "none" /\ line.level > 0
         THEN processSubRecord(line, st)
         ELSE st

\* parseLines: all lines in order; a throw ends the loop
RECURSIVE parseLinesFrom(_, _, _)
parseLinesFrom(lines, i, st) ==
    IF i > Len(lines) \/ st.threw THEN st
    ELSE parseLinesFrom(lines, i + 1, parseLinesStep(lines[i], st))

parseLines(lines) == parseLinesFrom(lines, 1, ParserStart)

(***************************************************************************)
(* linkFamilyRelationships.                                                *)
(***************************************************************************)
\* a children check that never finds the individual
ListsChild_Never(family, id) ==
    FALSE

\* family.children.includes(individual.id)
ListsChild(family, id) ==
    Includes(family.children, id)

\* a post-pass without the repair of the children lists
LinkChildFamilies_NoRepair(individual, k, fams) ==
    fams

\* the child-family loop of one individual
RECURSIVE LinkChildFamilies(_, _, _)
LinkChildFamilies(individual, k, fams) ==
    IF k > Len(individual.families.child) THEN fams
    ELSE LET familyId == individual.families.child[k]
         IN IF /\ MapHas(fams, familyId)
               /\ ~ListsChild(MapGet(fams, familyId), individual.id)
            THEN LinkChildFamilies(individual, k + 1,
                    [fams EXCEPT ![MapIndex(fams, familyId)].children =
                                     Append(@, individual.id)])
            ELSE LinkChildFamilies(individual, k + 1, fams)

\* a wife claim by every individual who is not male
ClaimsWife_NotMale(individual) ==
    individual.sex # <<"M">>

\* individual.sex === 'F'
ClaimsWife(individual) ==
    individual.sex = <<"F">>

\* the spouse-family loop of one individual
RECURSIVE LinkSpouseFamilies(_, _, _)
LinkSpouseFamilies(individual, k, fams) ==
    IF k > Len(individual.families.spouse) THEN fams
    ELSE LET familyId == individual.families.spouse[k]
         IN IF ~MapHas(fams, familyId)
            THEN LinkSpouseFamilies(individual, k + 1, fams)
            ELSE LET family == MapGet(fams, familyId)
                 IN IF individual.sex = <<"M">> /\ ~Truthy(family.husband)
                    THEN LinkSpouseFamilies(individual, k + 1,
                            [fams EXCEPT ![MapIndex(fams, familyId)].husband =
                                             individual.id])
                    ELSE IF ClaimsWife(individual) /\ ~Truthy(family.wife)
                         THEN LinkSpouseFamilies(individual, k + 1,
                                 [fams EXCEPT ![MapIndex(fams, familyId)].wife =
                                                  individual.id])
                         ELSE LinkSpouseFamilies(individual, k + 1, fams)

LinkIndividual(individual, fams) ==
    LinkSpouseFamilies(individual, 1, LinkChildFamilies(individual, 1, fams))

RECURSIVE LinkFrom(_, _, _)
LinkFrom(inds, n, fams) ==
    IF n > Len(inds) THEN fams
    ELSE LinkFrom(inds, n + 1, LinkIndividual(inds[n], fams))

\* linkFamilyRelationships: the family map after the post-pass
linkFamilyRelationships(inds, fams) == LinkFrom(inds, 1, fams)

(***************************************************************************)
(* parse: the two results it can return.                                   *)
(***************************************************************************)
\* the message of the TypeError raised by reading [0] of a null match
TypeErrorMessage == "Cannot read properties of null (reading '0')"

getParsingStats(inds, fams, errs, warns) ==
    [individuals |-> Len(inds), families |-> Len(fams),
     errors |-> Len(errs), warnings |-> Len(warns)]

\* the return of the try block
parseReturn(inds, fams, errs, warns) ==
    [success     |-> TRUE,
     individuals |-> inds,
     families    |-> fams,
     stats       |-> getParsingStats(inds, fams, errs, warns),
     errors      |-> errs,
     warnings    |-> warns]

\* a catch block that hands out a mapping
parseCatch_Partial(message, errs, warns) ==
    [success     |-> FALSE,
     error       |-> message,
     individuals |-> <<>>,
     families    |-> <<>>,
     errors      |-> errs,
     warnings    |-> warns]

\* the return of the catch block, errs being this.errors after the push
parseCatch(message, errs, warns) ==
    [success  |-> FALSE,
     error    |-> message,
     errors   |-> errs,
     warnings |-> warns]

CriticalError(message) == [kind |-> "Critical parsing error", message |-> message]

\* parse as a function of its argument
parse(gedcomContent) ==
    LET pre == preprocessLines(gedcomContent)
        st  == parseLines(pre.lines)
    IN IF st.threw
       THEN parseCatch(TypeErrorMessage, <<CriticalError(TypeErrorMessage)>>,
                       pre.warnings)
       ELSE parseReturn(st.individuals,
                        linkFamilyRelationships(st.individuals, st.families),
                        <<>>, pre.warnings)

(***************************************************************************)
(* State.                                                                  *)
(***************************************************************************)
VARIABLES
    content,        \* the argument of the parse call
    pc,             \* position of the parse call: call, parseLines, done
    rawData,        \* GedcomParser.rawData
    individuals,    \* GedcomParser.individuals
    families,       \* GedcomParser.families
    errors,         \* GedcomParser.errors
    warnings,       \* GedcomParser.warnings
    lines,          \* the preprocessed lines parseLines walks
    idx,            \* index in lines of the next line of the loop
    currentRecord,  \* parseLines' currentRecord
    recordStack,    \* parseLines' recordStack
    result,         \* what parse returned
    tbIndividuals,  \* TreeBuilder.individuals
    tbFamilies,     \* TreeBuilder.families
    tbRootPerson,   \* TreeBuilder.rootPerson
    tbMaxGenerations, \* TreeBuilder.maxGenerations
    tbTreeType,     \* TreeBuilder.treeType
    tpc,            \* position of the tree builder's caller: new, ready, built
    call,           \* the arguments of the buildTree call
    tree,           \* what buildTree returned or raised
    prevCall,       \* the arguments of the buildTree call before it
    prevTree,       \* what that call returned or raised
    nextOid,        \* the number of the next object the builder allocates
    initHistory,    \* the arguments of the initialize calls, oldest first
    rootCall,       \* the arguments of the findRootPerson call
    rootFound,      \* what findRootPerson returned
    frames,         \* the recursive calls of a build that are still to be made
    created,        \* the number of createTreeNode calls of the build so far
    popup,          \* the popup's variables and the display of its elements
    readers         \* the FileReaders the popup started, oldest first

parserVars == <<content, pc, rawData, individuals, families, errors, warnings,
                lines, idx, currentRecord, recordStack, result>>

builderVars == <<tbIndividuals, tbFamilies, tbRootPerson, tbMaxGenerations,
                 tbTreeType, tpc, call, tree, prevCall, prevTree, nextOid,
                 initHistory, rootCall, rootFound, frames, created, popup, readers>>

vars == <<content, pc, rawData, individuals, families, errors, warnings,
          lines, idx, currentRecord, recordStack, result,
          tbIndividuals, tbFamilies, tbRootPerson, tbMaxGenerations,
          tbTreeType, tpc, call, tree, prevCall, prevTree, nextOid,
          initHistory, rootCall, rootFound, frames, created, popup, readers>>

NoResult == [success |-> FALSE, error |-> "none", errors |-> <<>>, warnings |-> <<>>]

NoCall == [rootPersonId |-> NULL, treeType |-> "none", maxGenerations |-> 0]

NoTree == [raised |-> FALSE, error |-> "none"]

NoRootCall == [individuals |-> <<>>, preferences |-> [given |-> {}]]

NoRootFound == [called |-> FALSE]

\* the popup when its DOMContentLoaded handler has run: no file, no parsed
\* data, no request to the browser; the display of the elements is what the
\* page gives them.  selectedFile and parsedData are <<>> for null.
\* selections counts the change events handled, generates the clicks on the
\* generate button, and cleared tells that clearSelectedFile ran after the
\* last of the selections: these three are history, not popup state.
PopupStart ==
    [selectedFile |-> << >>, parsedData |-> << >>, fileInputValue |-> << >>,
     uploadBtn |-> "page", fileInfo |-> "page", controls |-> "page",
     status |-> [display |-> "page", type |-> "none"],
     request |-> "none", requested |-> 0, stored |-> 0,
     selections |-> 0, generates |-> 0, cleared |-> FALSE]

ToLowerChar(c) ==
    CASE c = "A" -> "a" [] c = "B" -> "b" [] c = "C" -> "c" [] c = "D" -> "d"
      [] c = "E" -> "e" [] c = "F" -> "f" [] c = "G" -> "g" [] c = "H" -> "h"
      [] c = "I" -> "i" [] c = "J" -> "j" [] c = "K" -> "k" [] c = "L" -> "l"
      [] c = "M" -> "m" [] c = "N" -> "n" [] c = "O" -> "o" [] c = "P" -> "p"
      [] c = "Q" -> "q" [] c = "R" -> "r" [] c = "S" -> "s" [] c = "T" -> "t"
      [] c = "U" -> "u" [] c = "V" -> "v" [] c = "W" -> "w" [] c = "X" -> "x"
      [] c = "Y" -> "y" [] c = "Z" -> "z" [] OTHER -> c

\* String.prototype.toLowerCase
ToLowerCase(s) == [k \in 1..Len(s) |-> ToLowerChar(s[k])]

\* String.prototype.lastIndexOf for one character: a 0-based index, or -1
LastIndexOf(s, c) ==
    IF \E k \in 1..Len(s) : s[k] = c
    THEN (CHOOSE k \in 1..Len(s) : s[k] = c /\ \A j \in (k + 1)..Len(s) : s[j] # c) - 1
    ELSE -1

\* String.prototype.substring(start): a negative start counts as 0
SubstringFrom(s, start) ==
    IF start <= 0 THEN s ELSE SubSeq(s, start + 1, Len(s))

\* isValidGedcomFile: the lower-cased text from the last "." is .ged or .gedcom
isValidGedcomFile(file) ==
    SubstringFrom(ToLowerCase(file.name), LastIndexOf(file.name, "."))
        \in { <<".", "g", "e", "d">>, <<".", "g", "e", "d", "c", "o", "m">> }

\* showStatus: the class of the message, and the status element displayed
showStatus(type) == [display |-> "block", type |-> type]

(***************************************************************************)
(* TreeBuilder (src/lib/tree-builder.js).  A node-or-null is <<>> for null *)
(* and <<node>> for a node.  children is <<>> for null: the code assigns   *)
(* only non-empty arrays to it.  parents is <<>> when the property is not  *)
(* set.                                                                    *)
(***************************************************************************)
DefaultMaxGenerations == 5

DefaultTreeType == "ancestors"

\* the value a destructured option takes: the default when it is not given
Option(options, key, default) ==
    IF key \in options.given THEN options[key] ELSE default

\* TreeBuilder.initialize: the map built from an array of records
RECURSIVE ArrayToMap(_, _, _)
ArrayToMap(array, k, m) ==
    IF k > Len(array) THEN m
    ELSE ArrayToMap(array, k + 1, MapSet(m, array[k]))

\* an initialize that leaves the earlier entries of the map in place
initialize_NoClear(map, array) == ArrayToMap(array, 1, map)

\* TreeBuilder.initialize, for one of its two maps: clear, then set each record
initialize(map, array) == ArrayToMap(array, 1, <<>>)

getDisplayName(person) ==
    IF person.name.given # <<>> /\ person.name.surname # <<>>
    THEN person.name.given \o <<" ">> \o person.name.surname
    ELSE IF person.name.full # <<>>
         THEN person.name.full
         ELSE <<"U", "n", "k", "n", "o", "w", "n">>

\* date?.display || fallback
DisplayOr(date, fallback) ==
    IF date # NoDate /\ date[1].display # <<>> THEN date[1].display ELSE fallback

getLifeDates(person) ==
    LET birth == DisplayOr(person.birth.date, <<"?">>)
        death == DisplayOr(person.death.date,
                           IF person.death.date # NoDate THEN <<"?">> ELSE <<>>)
    IN IF death # <<>>
       THEN <<"(">> \o birth \o <<" ", "-", " ">> \o death \o <<")">>
       ELSE IF birth # <<"?">>
            THEN <<"(", "b", ".", " ">> \o birth \o <<")">>
            ELSE <<>>

RECURSIVE SpousesFrom(_, _, _, _, _)
SpousesFrom(inds, fams, person, k, spouses) ==
    IF k > Len(person.families.spouse) THEN spouses
    ELSE LET familyId == person.families.spouse[k]
         IN IF ~MapHas(fams, familyId)
            THEN SpousesFrom(inds, fams, person, k + 1, spouses)
            ELSE LET family   == MapGet(fams, familyId)
                     spouseId == IF person.sex = <<"M">> THEN family.wife
                                 ELSE family.husband
                 IN IF MapHas(inds, spouseId)
                    THEN SpousesFrom(inds, fams, person, k + 1,
                            Append(spouses,
                              [id            |-> spouseId,
                               name          |-> getDisplayName(MapGet(inds, spouseId)),
                               marriageDate  |-> DisplayOr(family.marriage.date, UNDEFINED),
                               marriagePlace |-> family.marriage.place]))
                    ELSE SpousesFrom(inds, fams, person, k + 1, spouses)

getSpouses(inds, fams, person) == SpousesFrom(inds, fams, person, 1, <<>>)

\* a mutable object of a node is named by a reference: a node by the number
\* of its allocation (oid), an array by the node whose build allocated it,
\* an event object by the Individual record whose field holds it
ArrayRef(oid, array) == << [owner |-> oid, array |-> array] >>

EventRef(person, field) == [owner |-> person.id, field |-> field]

\* a createTreeNode that keeps one node object for each person
createTreeNode_Cached(inds, fams, person, generation, oid) ==
    [oid          |-> MapIndex(inds, person.id),
     id           |-> person.id,
     generation   |-> generation,
     name         |-> [full    |-> person.name.full,
                       given   |-> person.name.given,
                       surname |-> person.name.surname],
     sex          |-> person.sex,
     birth        |-> person.birth,
     birthRef     |-> EventRef(person, "birth"),
     death        |-> person.death,
     deathRef     |-> EventRef(person, "death"),
     isAlive      |-> person.death.date = NoDate,
     dates        |-> getLifeDates(person),
     displayName  |-> getDisplayName(person),
     depth        |-> generation,
     nodeType     |-> "person",
     spouses      |-> getSpouses(inds, fams, person),
     _person      |-> person.id,
     children     |-> <<>>,
     childrenRef  |-> <<>>,
     parents      |-> <<>>,
     parentsRef   |-> <<>>,
     relationship |-> "undefined"]

\* createTreeNode: the object literal is a new object (oid); name is a new
\* object too, birth and death are the Individual's own objects
createTreeNode(inds, fams, person, generation, oid) ==
    [oid          |-> oid,
     id           |-> person.id,
     generation   |-> generation,
     name         |-> [full    |-> person.name.full,
                       given   |-> person.name.given,
                       surname |-> person.name.surname],
     sex          |-> person.sex,
     birth        |-> person.birth,
     birthRef     |-> EventRef(person, "birth"),
     death        |-> person.death,
     deathRef     |-> EventRef(person, "death"),
     isAlive      |-> person.death.date = NoDate,
     dates        |-> getLifeDates(person),
     displayName  |-> getDisplayName(person),
     depth        |-> generation,
     nodeType     |-> "person",
     spouses      |-> getSpouses(inds, fams, person),
     _person      |-> person.id,
     children     |-> <<>>,
     childrenRef  |-> <<>>,
     parents      |-> <<>>,
     parentsRef   |-> <<>>,
     relationship |-> "undefined"]

\* the node with its relationship set, as a list of zero or one node
Tagged(nodeOrNull, relationship) ==
    IF nodeOrNull = <<>> THEN <<>>
    ELSE << [nodeOrNull[1] EXCEPT !.relationship = relationship] >>

\* the number of createTreeNode calls that built a list of sub-trees
RECURSIVE Created(_)
Created(nodes) ==
    IF nodes = <<>> THEN 0
    ELSE 1 + Created(Head(nodes).children) + Created(Tail(nodes))

\* a depth test that lets one more generation through
AtDepthBound_OffByOne(generation, maxGen) ==
    generation > maxGen

\* generation >= this.maxGenerations
AtDepthBound(generation, maxGen) ==
    generation >= maxGen

\* a choice of the last family the person is a child of
ParentFamilyId_Last(childFamilies) == childFamilies[Len(childFamilies)]

\* childFamilies[0]
ParentFamilyId(childFamilies) == childFamilies[1]

RECURSIVE buildAncestorTree(_, _, _, _, _, _)
buildAncestorTree(inds, fams, maxGen, personId, generation, oid) ==
    IF ~MapHas(inds, personId) \/ AtDepthBound(generation, maxGen) THEN <<>>
    ELSE LET person        == MapGet(inds, personId)
             node          == createTreeNode(inds, fams, person, generation, oid)
             childFamilies == person.families.child
         IN IF Len(childFamilies) > 0 /\ MapHas(fams, ParentFamilyId(childFamilies))
            THEN LET parentFamily == MapGet(fams, ParentFamilyId(childFamilies))
                     father == IF Truthy(parentFamily.husband)
                               THEN Tagged(buildAncestorTree(inds, fams, maxGen,
                                              parentFamily.husband, generation + 1,
                                              oid + 1),
                                           "father")
                               ELSE <<>>
                     mother == IF Truthy(parentFamily.wife)
                               THEN Tagged(buildAncestorTree(inds, fams, maxGen,
                                              parentFamily.wife, generation + 1,
                                              oid + 1 + Created(father)),
                                           "mother")
                               ELSE <<>>
                     parents == father \o mother
                 IN IF Len(parents) > 0
                    THEN << [node EXCEPT !.parents     = parents,
                                         !.parentsRef  = ArrayRef(oid, "parents"),
                                         !.children    = parents,
                                         !.childrenRef = ArrayRef(oid, "parents")] >>
                    ELSE << node >>
            ELSE << node >>

RECURSIVE buildDescendantTree(_, _, _, _, _, _)
RECURSIVE DescendantsOfFamily(_, _, _, _, _, _, _)
RECURSIVE DescendantsOfFamilies(_, _, _, _, _, _, _)

\* the inner forEach: the children built for one family's child ids
DescendantsOfFamily(inds, fams, maxGen, childIds, k, generation, oid) ==
    IF k > Len(childIds) THEN <<>>
    ELSE LET child == Tagged(buildDescendantTree(inds, fams, maxGen, childIds[k],
                                                 generation + 1, oid),
                             "child")
         IN child \o DescendantsOfFamily(inds, fams, maxGen, childIds, k + 1,
                                         generation, oid + Created(child))

\* an outer loop that stops after the person's first family
DescendantsOfFamilies_FirstOnly(inds, fams, maxGen, familyIds, k, generation, oid) ==
    IF k > Len(familyIds) \/ k > 1 THEN <<>>
    ELSE IF MapHas(fams, familyIds[k])
         THEN DescendantsOfFamily(inds, fams, maxGen,
                                  MapGet(fams, familyIds[k]).children, 1,
                                  generation, oid)
         ELSE <<>>

\* the outer forEach over person.families.spouse
DescendantsOfFamilies(inds, fams, maxGen, familyIds, k, generation, oid) ==
    IF k > Len(familyIds) THEN <<>>
    ELSE LET ofFamily == IF MapHas(fams, familyIds[k])
                         THEN DescendantsOfFamily(inds, fams, maxGen,
                                                  MapGet(fams, familyIds[k]).children,
                                                  1, generation, oid)
                         ELSE <<>>
         IN ofFamily \o DescendantsOfFamilies(inds, fams, maxGen, familyIds, k + 1,
                                              generation, oid + Created(ofFamily))

buildDescendantTree(inds, fams, maxGen, personId, generation, oid) ==
    IF ~MapHas(inds, personId) \/ AtDepthBound(generation, maxGen) THEN <<>>
    ELSE LET person   == MapGet(inds, personId)
             node     == createTreeNode(inds, fams, person, generation, oid)
             children == DescendantsOfFamilies(inds, fams, maxGen,
                                               person.families.spouse, 1, generation,
                                               oid + 1)
         IN IF Len(children) > 0
            THEN << [node EXCEPT !.children    = children,
                                 !.childrenRef = ArrayRef(oid, "children")] >>
            ELSE << node >>

\* a combined build that gives each direction half of the generations
buildCombinedTree_HalfGenerations(inds, fams, maxGen, rootPersonId, oid) ==
    LET ancestorTree   == buildAncestorTree(inds, fams, maxGen \div 2, rootPersonId, 0, oid)
        descendantTree == buildDescendantTree(inds, fams, (maxGen + 1) \div 2,
                                              rootPersonId, 0,
                                              oid + Created(ancestorTree))
    IN IF /\ ancestorTree # <<>>
          /\ descendantTree # <<>>
          /\ descendantTree[1].children # <<>>
       THEN << [ancestorTree[1] EXCEPT
                   !.children    = ancestorTree[1].children \o descendantTree[1].children,
                   !.childrenRef = ArrayRef(oid, "concat")] >>
       ELSE ancestorTree

\* buildCombinedTree: the half-generation counts it computes are not used
buildCombinedTree(inds, fams, maxGen, rootPersonId, oid) ==
    LET ancestorTree   == buildAncestorTree(inds, fams, maxGen, rootPersonId, 0, oid)
        descendantTree == buildDescendantTree(inds, fams, maxGen, rootPersonId, 0,
                                              oid + Created(ancestorTree))
    IN IF /\ ancestorTree # <<>>
          /\ descendantTree # <<>>
          /\ descendantTree[1].children # <<>>
       THEN << [ancestorTree[1] EXCEPT
                   !.children    = ancestorTree[1].children \o descendantTree[1].children,
                   !.childrenRef = ArrayRef(oid, "concat")] >>
       ELSE ancestorTree

RECURSIVE countNodes(_)
RECURSIVE CountAll(_, _)
CountAll(nodes, k) ==
    IF k > Len(nodes) THEN 0
    ELSE countNodes(<< nodes[k] >>) + CountAll(nodes, k + 1)

countNodes(nodeOrNull) ==
    IF nodeOrNull = <<>> THEN 0
    ELSE 1 + CountAll(nodeOrNull[1].children, 1) + CountAll(nodeOrNull[1].parents, 1)

TreeTypes == {"ancestors", "descendants", "both"}

\* a buildTree that does not test whether the root was found
buildTree_NoRootCheck(inds, fams, rootPersonId, options, oid) ==
    LET maxGenerations == Option(options, "maxGenerations", DefaultMaxGenerations)
        treeType       == Option(options, "treeType", DefaultTreeType)
    IN IF treeType \notin TreeTypes
       THEN [raised |-> TRUE, error |-> "Unknown tree type"]
       ELSE LET treeData ==
                   CASE treeType = "ancestors" ->
                          buildAncestorTree(inds, fams, maxGenerations, rootPersonId, 0, oid)
                     [] treeType = "descendants" ->
                          buildDescendantTree(inds, fams, maxGenerations, rootPersonId, 0, oid)
                     [] treeType = "both" ->
                          buildCombinedTree(inds, fams, maxGenerations, rootPersonId, oid)
            IN [raised   |-> FALSE,
                error    |-> "none",
                root     |-> treeData,
                metadata |-> [rootPersonId    |-> rootPersonId,
                              treeType        |-> treeType,
                              maxGenerations  |-> maxGenerations,
                              totalNodes      |-> countNodes(treeData),
                              includeSpouses  |-> TRUE,
                              includeSiblings |-> FALSE]]

\* buildTree: what it returns, or the error it raises; oid is the number of
\* the first object the call allocates
buildTree(inds, fams, rootPersonId, options, oid) ==
    LET maxGenerations == Option(options, "maxGenerations", DefaultMaxGenerations)
        treeType       == Option(options, "treeType", DefaultTreeType)
    IN IF ~MapHas(inds, rootPersonId)
       THEN [raised |-> TRUE, error |-> "not found"]
       ELSE IF treeType \notin TreeTypes
            THEN [raised |-> TRUE, error |-> "Unknown tree type"]
            ELSE LET treeData ==
                        CASE treeType = "ancestors" ->
                               buildAncestorTree(inds, fams, maxGenerations, rootPersonId, 0, oid)
                          [] treeType = "descendants" ->
                               buildDescendantTree(inds, fams, maxGenerations, rootPersonId, 0, oid)
                          [] treeType = "both" ->
                               buildCombinedTree(inds, fams, maxGenerations, rootPersonId, oid)
                 IN [raised   |-> FALSE,
                     error    |-> "none",
                     root     |-> treeData,
                     metadata |-> [rootPersonId    |-> rootPersonId,
                                   treeType        |-> treeType,
                                   maxGenerations  |-> maxGenerations,
                                   totalNodes      |-> countNodes(treeData),
                                   includeSpouses  |-> TRUE,
                                   includeSiblings |-> FALSE]]

\* the number of objects a buildTree call allocated: the nodes of the tree
\* it returned and, in a combined build, the nodes of the descendant tree
NodesAllocated(inds, fams, rootPersonId, options) ==
    LET maxGenerations == Option(options, "maxGenerations", DefaultMaxGenerations)
        treeType       == Option(options, "treeType", DefaultTreeType)
    IN IF ~MapHas(inds, rootPersonId) \/ treeType \notin TreeTypes THEN 0
       ELSE CASE treeType = "ancestors" ->
                   Created(buildAncestorTree(inds, fams, maxGenerations, rootPersonId, 0, 0))
              [] treeType = "descendants" ->
                   Created(buildDescendantTree(inds, fams, maxGenerations, rootPersonId, 0, 0))
              [] treeType = "both" ->
                   Created(buildAncestorTree(inds, fams, maxGenerations, rootPersonId, 0, 0))
                   + Created(buildDescendantTree(inds, fams, maxGenerations, rootPersonId, 0, 0))

(***************************************************************************)
(* findRootPerson (src/lib/tree-builder.js).                               *)
(***************************************************************************)
\* person.name.full || person.name.given
HasNameText(person) == person.name.full # <<>> \/ person.name.given # <<>>

\* individuals.filter(person => person.name.full || person.name.given)
NamedCandidates(people) == SelectSeq(people, HasNameText)

\* a search that takes the first individual whatever its name
FirstNamed_Any(people) ==
    IF people = <<>> THEN <<>> ELSE << people[1] >>

\* individuals.find(person => person.name.full || person.name.given):
\* <<>> when nobody is found
FirstNamed(people) ==
    IF NamedCandidates(people) = <<>> THEN <<>>
    ELSE << NamedCandidates(people)[1] >>

\* parsed.getFullYear(): the Date is kept as its text, whose last four
\* characters are the year
getFullYear(parsed) ==
    IF Len(parsed) >= 4 THEN ParseInt(SubSeq(parsed, Len(parsed) - 3, Len(parsed)))
    ELSE ParseInt(parsed)

\* ten times the score of the forEach, which keeps the tenths whole
ScoreTimes10(person, preferEarliest, preferMostConnections, preferMales) ==
      (IF person.birth.date # NoDate
       THEN 100 + (IF preferEarliest /\ person.birth.date[1].parsed # NULL
                   THEN (IF 2100 - getFullYear(person.birth.date[1].parsed) > 0
                         THEN 2100 - getFullYear(person.birth.date[1].parsed)
                         ELSE 0)
                   ELSE 0)
       ELSE 0)
    + (IF preferMostConnections
       THEN (Len(person.families.child) + Len(person.families.spouse)) * 50
       ELSE 0)
    + (IF preferMales /\ person.sex = <<"M">> THEN 30
       ELSE IF ~preferMales /\ person.sex = <<"F">> THEN 30 ELSE 0)
    + (IF person.name.given # <<>> /\ person.name.surname # <<>> THEN 50 ELSE 0)

\* candidates.sort((a, b) => b._score - a._score)[0]: the sort is stable, so
\* the first candidate among those of the highest score
HighestScored(candidates, preferEarliest, preferMostConnections, preferMales) ==
    candidates[CHOOSE k \in 1..Len(candidates) :
        /\ \A j \in 1..Len(candidates) :
              ScoreTimes10(candidates[j], preferEarliest, preferMostConnections, preferMales)
                 <= ScoreTimes10(candidates[k], preferEarliest, preferMostConnections, preferMales)
        /\ \A j \in 1..(k - 1) :
              ScoreTimes10(candidates[j], preferEarliest, preferMostConnections, preferMales)
                 < ScoreTimes10(candidates[k], preferEarliest, preferMostConnections, preferMales)]

\* findRootPerson: the id it returns, and whether it wrote a _score on the
\* candidates
findRootPerson(people, preferences) ==
    LET useFirst              == Option(preferences, "useFirst", TRUE)
        preferEarliest        == Option(preferences, "preferEarliest", FALSE)
        preferMostConnections == Option(preferences, "preferMostConnections", FALSE)
        preferMales           == Option(preferences, "preferMales", FALSE)
    IN IF Len(people) = 0
       THEN [id |-> NULL, scored |-> FALSE]
       ELSE IF useFirst /\ FirstNamed(people) # <<>>
            THEN [id |-> FirstNamed(people)[1].id, scored |-> FALSE]
            ELSE IF NamedCandidates(people) = <<>>
                 THEN [id |-> people[1].id, scored |-> FALSE]
                 ELSE IF preferEarliest \/ preferMostConnections \/ preferMales
                      THEN [id     |-> HighestScored(NamedCandidates(people),
                                          preferEarliest, preferMostConnections,
                                          preferMales).id,
                            scored |-> TRUE]
                      ELSE [id |-> NamedCandidates(people)[1].id, scored |-> FALSE]

(***************************************************************************)

(* Inputs.                                                                 *)
(***************************************************************************)
I1 == <<"@", "I", "1", "@">>
I2 == <<"@", "I", "2", "@">>
I3 == <<"@", "I", "3", "@">>
I9 == <<"@", "I", "9", "@">>
F1 == <<"@", "F", "1", "@">>
F2 == <<"@", "F", "2", "@">>
F9 == <<"@", "F", "9", "@">>

SP == <<" ">>

\* the lines the texts of the parser's exploration are made of
FamilyLines ==
    << <<"0">> \o SP \o I1 \o SP \o TAG_INDI,
       <<"0">> \o SP \o I2 \o SP \o TAG_INDI,
       <<"0">> \o SP \o F1 \o SP \o TAG_FAM,
       <<"1">> \o SP \o TAG_FAMC \o SP \o F1,
       <<"1">> \o SP \o TAG_CHIL \o SP \o I1,
       <<"1">> \o SP \o TAG_CHIL \o SP \o I2,
       <<"1">> \o SP \o TAG_HUSB \o SP \o I1,
       <<"1">> \o SP \o TAG_HUSB \o SP \o I2,
       <<"1">> \o SP \o TAG_HUSB,
       <<"1">> \o SP \o TAG_WIFE \o SP \o I2,
       <<"1">> \o SP \o TAG_FAMC \o SP \o <<"@", "@", "@">>,
       <<"i", "n", "v", "a", "l", "i", "d">>,
       <<" ", "\r">> >>

\* the lines joined by line feeds
RECURSIVE JoinLines(_)
JoinLines(ls) ==
    IF Len(ls) = 0 THEN <<>>
    ELSE IF Len(ls) = 1 THEN ls[1]
         ELSE ls[1] \o <<"\n">> \o JoinLines(Tail(ls))

\* every text of at most MaxLines lines of the catalogue
Texts(catalogue) ==
    UNION { { JoinLines([k \in 1..n |-> catalogue[f[k]]]) :
                f \in [1..n -> 1..Len(catalogue)] } : n \in 0..MaxLines }

\* the lines of one record with events: at most MaxEventLines after the
\* level-0 line
MaxEventLines == 4

DATE_1900 == TAG_DATE \o SP \o <<"1", "9", "0", "0">>
DATE_1950 == TAG_DATE \o SP \o <<"1", "9", "5", "0">>
DATE_2000 == TAG_DATE \o SP \o <<"2", "0", "0", "0">>
PLAC_NY == TAG_PLAC \o SP \o <<"N", "Y">>

IndividualEventLines ==
    << <<"1">> \o SP \o TAG_BIRT,
       <<"1">> \o SP \o TAG_DEAT,
       <<"2">> \o SP \o DATE_1900,
       <<"2">> \o SP \o DATE_1950,
       <<"2">> \o SP \o PLAC_NY,
       <<"2">> \o SP \o TAG_BIRT,
       <<"3">> \o SP \o DATE_2000 >>

FamilyEventLines ==
    << <<"1">> \o SP \o TAG_MARR,
       <<"1">> \o SP \o TAG_DIV,
       <<"2">> \o SP \o DATE_1900,
       <<"2">> \o SP \o DATE_1950,
       <<"2">> \o SP \o PLAC_NY,
       <<"3">> \o SP \o DATE_2000 >>

\* every text made of the header line and at most MaxEventLines lines of the
\* catalogue
RecordTexts(header, catalogue) ==
    UNION { { JoinLines(<<header>> \o [k \in 1..n |-> catalogue[f[k]]]) :
                f \in [1..n -> 1..Len(catalogue)] } : n \in 0..MaxEventLines }

EventTexts ==
    RecordTexts(<<"0">> \o SP \o I1 \o SP \o TAG_INDI, IndividualEventLines)
    \cup RecordTexts(<<"0">> \o SP \o F1 \o SP \o TAG_FAM, FamilyEventLines)

\* the texts of the life-dates exploration: one individual with birth and
\* death events and their dates
DATE_UNKNOWN == TAG_DATE \o SP \o <<"?">>

LifeEventLines ==
    << <<"1">> \o SP \o TAG_BIRT,
       <<"1">> \o SP \o TAG_DEAT,
       <<"2">> \o SP \o DATE_1900,
       <<"2">> \o SP \o DATE_1950,
       <<"2">> \o SP \o DATE_UNKNOWN >>

LifeTexts == RecordTexts(<<"0">> \o SP \o I1 \o SP \o TAG_INDI, LifeEventLines)

\* the texts of the linking exploration: two individuals and one family,
\* each record with a choice of its SEX, FAMS, FAMC, HUSB, WIFE and CHIL lines
SexLineChoices ==
    { <<>>,
      << <<"1">> \o SP \o TAG_SEX \o SP \o <<"M">> >>,
      << <<"1">> \o SP \o TAG_SEX \o SP \o <<"F">> >>,
      << <<"1">> \o SP \o TAG_SEX \o SP \o <<"x">> >>,
      << <<"1">> \o SP \o TAG_SEX >> }

KnownSexLineChoices ==
    { <<>>,
      << <<"1">> \o SP \o TAG_SEX \o SP \o <<"M">> >>,
      << <<"1">> \o SP \o TAG_SEX \o SP \o <<"F">> >> }

OptionalLine(line) == { <<>>, <<line>> }

HusbandLineChoices ==
    { <<>>,
      << <<"1">> \o SP \o TAG_HUSB \o SP \o I1 >>,
      << <<"1">> \o SP \o TAG_HUSB \o SP \o I2 >> }

LinkTexts ==
    { JoinLines(   << <<"0">> \o SP \o I1 \o SP \o TAG_INDI >> \o sex1 \o fams1 \o famc1
                \o << <<"0">> \o SP \o I2 \o SP \o TAG_INDI >> \o sex2 \o fams2 \o famc2
                \o << <<"0">> \o SP \o F1 \o SP \o TAG_FAM >> \o husb \o wife \o chil) :
        sex1 \in SexLineChoices,
        fams1 \in OptionalLine(<<"1">> \o SP \o TAG_FAMS \o SP \o F1),
        famc1 \in OptionalLine(<<"1">> \o SP \o TAG_FAMC \o SP \o F1),
        sex2 \in KnownSexLineChoices,
        fams2 \in OptionalLine(<<"1">> \o SP \o TAG_FAMS \o SP \o F1),
        famc2 \in OptionalLine(<<"1">> \o SP \o TAG_FAMC \o SP \o F1),
        husb \in HusbandLineChoices,
        wife \in OptionalLine(<<"1">> \o SP \o TAG_WIFE \o SP \o I2),
        chil \in OptionalLine(<<"1">> \o SP \o TAG_CHIL \o SP \o I1) }

\* getSampleGedcomData: the sample file of the tests
SampleGedcomData ==
       <<"0", " ", "H", "E", "A", "D", "\n">>
    \o <<"1", " ", "S", "O", "U", "R", " ", "T", "e", "s", "t", " ", "F", "a", "m", "i", "l", "y", " ", "T", "r", "e", "e", "\n">>
    \o <<"2", " ", "V", "E", "R", "S", " ", "1", ".", "0", "\n">>
    \o <<"1", " ", "D", "E", "S", "T", " ", "G", "E", "D", "C", "O", "M", "\n">>
    \o <<"1", " ", "D", "A", "T", "E", " ", "2", "5", " ", "S", "E", "P", " ", "2", "0", "2", "5", "\n">>
    \o <<"1", " ", "C", "H", "A", "R", " ", "U", "T", "F", "-", "8", "\n">>
    \o <<"1", " ", "G", "E", "D", "C", "\n">>
    \o <<"2", " ", "V", "E", "R", "S", " ", "5", ".", "5", ".", "1", "\n">>
    \o <<"\n">>
    \o <<"0", " ", "@", "I", "1", "@", " ", "I", "N", "D", "I", "\n">>
    \o <<"1", " ", "N", "A", "M", "E", " ", "J", "o", "h", "n", " ", "/", "S", "m", "i", "t", "h", "/", "\n">>
    \o <<"1", " ", "S", "E", "X", " ", "M", "\n">>
    \o <<"1", " ", "B", "I", "R", "T", "\n">>
    \o <<"2", " ", "D", "A", "T", "E", " ", "1", " ", "J", "A", "N", " ", "1", "9", "5", "0", "\n">>
    \o <<"2", " ", "P", "L", "A", "C", " ", "N", "e", "w", " ", "Y", "o", "r", "k", ",", " ", "N", "Y", ",", " ", "U", "S", "A", "\n">>
    \o <<"1", " ", "F", "A", "M", "S", " ", "@", "F", "1", "@", "\n">>
    \o <<"1", " ", "F", "A", "M", "C", " ", "@", "F", "2", "@", "\n">>
    \o <<"\n">>
    \o <<"0", " ", "@", "I", "2", "@", " ", "I", "N", "D", "I", "\n">>
    \o <<"1", " ", "N", "A", "M", "E", " ", "M", "a", "r", "y", " ", "/", "J", "o", "h", "n", "s", "o", "n", "/", "\n">>
    \o <<"1", " ", "S", "E", "X", " ", "F", "\n">>
    \o <<"1", " ", "B", "I", "R", "T", "\n">>
    \o <<"2", " ", "D", "A", "T", "E", " ", "1", "5", " ", "F", "E", "B", " ", "1", "9", "5", "2", "\n">>
    \o <<"2", " ", "P", "L", "A", "C", " ", "B", "o", "s", "t", "o", "n", ",", " ", "M", "A", ",", " ", "U", "S", "A", "\n">>
    \o <<"1", " ", "F", "A", "M", "S", " ", "@", "F", "1", "@", "\n">>
    \o <<"\n">>
    \o <<"0", " ", "@", "I", "3", "@", " ", "I", "N", "D", "I", "\n">>
    \o <<"1", " ", "N", "A", "M", "E", " ", "R", "o", "b", "e", "r", "t", " ", "/", "S", "m", "i", "t", "h", "/", "\n">>
    \o <<"1", " ", "S", "E", "X", " ", "M", "\n">>
    \o <<"1", " ", "B", "I", "R", "T", "\n">>
    \o <<"2", " ", "D", "A", "T", "E", " ", "1", "0", " ", "J", "U", "N", " ", "1", "9", "7", "5", "\n">>
    \o <<"2", " ", "P", "L", "A", "C", " ", "N", "e", "w", " ", "Y", "o", "r", "k", ",", " ", "N", "Y", ",", " ", "U", "S", "A", "\n">>
    \o <<"1", " ", "F", "A", "M", "C", " ", "@", "F", "1", "@", "\n">>
    \o <<"\n">>
    \o <<"0", " ", "@", "I", "4", "@", " ", "I", "N", "D", "I", "\n">>
    \o <<"1", " ", "N", "A", "M", "E", " ", "S", "a", "r", "a", "h", " ", "/", "S", "m", "i", "t", "h", "/", "\n">>
    \o <<"1", " ", "S", "E", "X", " ", "F", "\n">>
    \o <<"1", " ", "B", "I", "R", "T", "\n">>
    \o <<"2", " ", "D", "A", "T", "E", " ", "2", "0", " ", "A", "U", "G", " ", "1", "9", "7", "8", "\n">>
    \o <<"2", " ", "P", "L", "A", "C", " ", "N", "e", "w", " ", "Y", "o", "r", "k", ",", " ", "N", "Y", ",", " ", "U", "S", "A", "\n">>
    \o <<"1", " ", "F", "A", "M", "C", " ", "@", "F", "1", "@", "\n">>
    \o <<"\n">>
    \o <<"0", " ", "@", "I", "5", "@", " ", "I", "N", "D", "I", "\n">>
    \o <<"1", " ", "N", "A", "M", "E", " ", "W", "i", "l", "l", "i", "a", "m", " ", "/", "S", "m", "i", "t", "h", "/", "\n">>
    \o <<"1", " ", "S", "E", "X", " ", "M", "\n">>
    \o <<"1", " ", "B", "I", "R", "T", "\n">>
    \o <<"2", " ", "D", "A", "T", "E", " ", "5", " ", "M", "A", "R", " ", "1", "9", "2", "0", "\n">>
    \o <<"2", " ", "P", "L", "A", "C", " ", "C", "h", "i", "c", "a", "g", "o", ",", " ", "I", "L", ",", " ", "U", "S", "A", "\n">>
    \o <<"1", " ", "D", "E", "A", "T", "\n">>
    \o <<"2", " ", "D", "A", "T", "E", " ", "1", "2", " ", "D", "E", "C", " ", "1", "9", "9", "5", "\n">>
    \o <<"2", " ", "P", "L", "A", "C", " ", "N", "e", "w", " ", "Y", "o", "r", "k", ",", " ", "N", "Y", ",", " ", "U", "S", "A", "\n">>
    \o <<"1", " ", "F", "A", "M", "S", " ", "@", "F", "2", "@", "\n">>
    \o <<"\n">>
    \o <<"0", " ", "@", "I", "6", "@", " ", "I", "N", "D", "I", "\n">>
    \o <<"1", " ", "N", "A", "M", "E", " ", "E", "l", "i", "z", "a", "b", "e", "t", "h", " ", "/", "B", "r", "o", "w", "n", "/", "\n">>
    \o <<"1", " ", "S", "E", "X", " ", "F", "\n">>
    \o <<"1", " ", "B", "I", "R", "T", "\n">>
    \o <<"2", " ", "D", "A", "T", "E", " ", "8", " ", "J", "U", "L", " ", "1", "9", "2", "2", "\n">>
    \o <<"2", " ", "P", "L", "A", "C", " ", "P", "h", "i", "l", "a", "d", "e", "l", "p", "h", "i", "a", ",", " ", "P", "A", ",", " ", "U", "S", "A", "\n">>
    \o <<"1", " ", "D", "E", "A", "T", "\n">>
    \o <<"2", " ", "D", "A", "T", "E", " ", "3", "0", " ", "N", "O", "V", " ", "2", "0", "1", "0", "\n">>
    \o <<"2", " ", "P", "L", "A", "C", " ", "N", "e", "w", " ", "Y", "o", "r", "k", ",", " ", "N", "Y", ",", " ", "U", "S", "A", "\n">>
    \o <<"1", " ", "F", "A", "M", "S", " ", "@", "F", "2", "@", "\n">>
    \o <<"\n">>
    \o <<"0", " ", "@", "F", "1", "@", " ", "F", "A", "M", "\n">>
    \o <<"1", " ", "H", "U", "S", "B", " ", "@", "I", "1", "@", "\n">>
    \o <<"1", " ", "W", "I", "F", "E", " ", "@", "I", "2", "@", "\n">>
    \o <<"1", " ", "C", "H", "I", "L", " ", "@", "I", "3", "@", "\n">>
    \o <<"1", " ", "C", "H", "I", "L", " ", "@", "I", "4", "@", "\n">>
    \o <<"1", " ", "M", "A", "R", "R", "\n">>
    \o <<"2", " ", "D", "A", "T", "E", " ", "1", "4", " ", "J", "U", "N", " ", "1", "9", "7", "4", "\n">>
    \o <<"2", " ", "P", "L", "A", "C", " ", "N", "e", "w", " ", "Y", "o", "r", "k", ",", " ", "N", "Y", ",", " ", "U", "S", "A", "\n">>
    \o <<"\n">>
    \o <<"0", " ", "@", "F", "2", "@", " ", "F", "A", "M", "\n">>
    \o <<"1", " ", "H", "U", "S", "B", " ", "@", "I", "5", "@", "\n">>
    \o <<"1", " ", "W", "I", "F", "E", " ", "@", "I", "6", "@", "\n">>
    \o <<"1", " ", "C", "H", "I", "L", " ", "@", "I", "1", "@", "\n">>
    \o <<"1", " ", "M", "A", "R", "R", "\n">>
    \o <<"2", " ", "D", "A", "T", "E", " ", "2", "2", " ", "M", "A", "Y", " ", "1", "9", "4", "9", "\n">>
    \o <<"2", " ", "P", "L", "A", "C", " ", "N", "e", "w", " ", "Y", "o", "r", "k", ",", " ", "N", "Y", ",", " ", "U", "S", "A", "\n">>
    \o <<"\n">>
    \o <<"0", " ", "T", "R", "L", "R">>

(***************************************************************************)
(* Graphs for the tree builder: the individual and family records a text   *)
(* yields, before the post-pass, from the FAMC, FAMS, SEX, HUSB, WIFE and  *)
(* CHIL lines it holds.                                                    *)
(***************************************************************************)
MaxGenerations == 3

ChildChoices == { <<>>, <<F1>>, <<F2>>, <<F1, F2>>, <<F9, F1>> }

SpouseChoices == { <<>>, <<F1>>, <<F2, F1>> }

GraphIndividual(id, sex, child, spouse) ==
    [createIndividualRecord(id) EXCEPT
        !.sex = sex, !.families.child = child, !.families.spouse = spouse]

\* the families as their own lines give them: none, or a woman as husband,
\* a man as wife, a husband of unknown sex and a child that has no record
FamilyChoices ==
    { << createFamilyRecord(F1), createFamilyRecord(F2) >>,
      << [createFamilyRecord(F1) EXCEPT !.husband = I2, !.wife = I1],
         [createFamilyRecord(F2) EXCEPT !.husband = I3, !.children = <<I9, I1>>] >> }

RootChoices == {I1, I3, I9}

OptionChoices ==
    { [treeType |-> t, maxGenerations |-> g, given |-> {"treeType", "maxGenerations"}] :
         t \in TreeTypes \cup {"siblings"}, g \in 0..MaxGenerations }
    \cup { [treeType |-> "undefined", maxGenerations |-> 0, given |-> {}] }

(***************************************************************************)
(* Initial states.                                                         *)
(***************************************************************************)
\* the parser and the tree builder as their constructors leave them
Constructed ==
    /\ pc = "call"
    /\ rawData = NULL
    /\ individuals = <<>>
    /\ families = <<>>
    /\ errors = <<>>
    /\ warnings = <<>>
    /\ lines = <<>>
    /\ idx = 0
    /\ currentRecord = NoRecord
    /\ recordStack = <<>>
    /\ result = NoResult
    /\ tbIndividuals = <<>>
    /\ tbFamilies = <<>>
    /\ tbRootPerson = NULL
    /\ tbMaxGenerations = DefaultMaxGenerations
    /\ tbTreeType = "ancestors"
    /\ tpc = "new"
    /\ call = NoCall
    /\ tree = NoTree
    /\ prevCall = NoCall
    /\ prevTree = NoTree
    /\ nextOid = 1
    /\ initHistory = <<>>
    /\ rootCall = NoRootCall
    /\ rootFound = NoRootFound
    /\ frames = <<>>
    /\ created = 0
    /\ popup = PopupStart
    /\ readers = <<>>

\* parse is about to be called on a text made of the family lines
Init ==
    /\ content \in Texts(FamilyLines)
    /\ Constructed

\* parse is about to be called on the sample file
InitSample ==
    /\ content = SampleGedcomData
    /\ Constructed

\* parse is about to be called on the text of one record with events
InitEvents ==
    /\ content \in EventTexts
    /\ Constructed

\* parse is about to be called on the text of one individual with life events
InitDates ==
    /\ content \in LifeTexts
    /\ Constructed

\* parse is about to be called on a text of the linking exploration
InitLink ==
    /\ content \in LinkTexts
    /\ Constructed

\* the records the parse of the sample file returns
SampleRecords == parse(SampleGedcomData)

\* a tree builder initialized with the linked records of some graph, or with
\* the records of the sample file
InitTree ==
    /\ content = <<>>
    /\ pc = "idle"
    /\ rawData = NULL
    /\ individuals = <<>>
    /\ families = <<>>
    /\ errors = <<>>
    /\ warnings = <<>>
    /\ lines = <<>>
    /\ idx = 0
    /\ currentRecord = NoRecord
    /\ recordStack = <<>>
    /\ result = NoResult
    /\ \/ \E c1 \in ChildChoices, c2 \in ChildChoices, c3 \in ChildChoices,
             s1 \in SpouseChoices, s2 \in SpouseChoices, s3 \in SpouseChoices,
             fs \in FamilyChoices :
             LET inds == << GraphIndividual(I1, <<"M">>, c1, s1),
                            GraphIndividual(I2, <<"F">>, c2, s2),
                            GraphIndividual(I3, <<"U">>, c3, s3) >>
             IN /\ tbIndividuals = initialize(<<>>, inds)
                /\ tbFamilies = initialize(<<>>, linkFamilyRelationships(inds, fs))
                /\ initHistory = << [individuals |-> inds,
                                     families    |-> linkFamilyRelationships(inds, fs)] >>
       \/ \E sample \in {SampleRecords} :
             /\ tbIndividuals = initialize(<<>>, sample.individuals)
             /\ tbFamilies = initialize(<<>>, sample.families)
             /\ initHistory = << [individuals |-> sample.individuals,
                                  families    |-> sample.families] >>
    /\ tbRootPerson = NULL
    /\ tbMaxGenerations = DefaultMaxGenerations
    /\ tbTreeType = "ancestors"
    /\ tpc = "ready"
    /\ call = NoCall
    /\ tree = NoTree
    /\ prevCall = NoCall
    /\ prevTree = NoTree
    /\ nextOid = 1
    /\ rootCall = NoRootCall
    /\ rootFound = NoRootFound
    /\ frames = <<>>
    /\ created = 0
    /\ popup = PopupStart
    /\ readers = <<>>

(***************************************************************************)
(* Actions of parse.                                                       *)
(***************************************************************************)
\* parse up to the end of preprocessLines: reset, rawData, the lines
ParseBegin ==
    /\ pc = "call"
    /\ LET pre == preprocessLines(content)
       IN /\ lines' = pre.lines
          /\ warnings' = pre.warnings
    /\ rawData' = content
    /\ individuals' = <<>>
    /\ families' = <<>>
    /\ errors' = <<>>
    /\ idx' = 1
    /\ currentRecord' = NoRecord
    /\ recordStack' = <<>>
    /\ pc' = "parseLines"
    /\ UNCHANGED <<content, result>>
    /\ UNCHANGED builderVars

\* one iteration of the loop of parseLines; a throw goes to the catch block
ParseLinesStep ==
    /\ pc = "parseLines"
    /\ idx <= Len(lines)
    /\ LET st == parseLinesStep(lines[idx],
                    [individuals |-> individuals, families |-> families,
                     currentRecord |-> currentRecord, recordStack |-> recordStack,
                     threw |-> FALSE])
       IN IF st.threw
          THEN /\ errors' = Append(errors, CriticalError(TypeErrorMessage))
               /\ result' = parseCatch(TypeErrorMessage, errors', warnings)
               /\ pc' = "done"
               /\ UNCHANGED <<individuals, families, currentRecord, recordStack, idx>>
          ELSE /\ individuals' = st.individuals
               /\ families' = st.families
               /\ currentRecord' = st.currentRecord
               /\ recordStack' = st.recordStack
               /\ idx' = idx + 1
               /\ UNCHANGED <<errors, result, pc>>
    /\ UNCHANGED <<content, rawData, warnings, lines>>
    /\ UNCHANGED builderVars

\* the end of the loop: linkFamilyRelationships and the return
ParseEnd ==
    /\ pc = "parseLines"
    /\ idx > Len(lines)
    /\ families' = linkFamilyRelationships(individuals, families)
    /\ result' = parseReturn(individuals, families', errors, warnings)
    /\ pc' = "done"
    /\ UNCHANGED <<content, rawData, individuals, errors, warnings, lines, idx,
                   currentRecord, recordStack>>
    /\ UNCHANGED builderVars

(***************************************************************************)
(* Actions of the tree builder.                                            *)
(***************************************************************************)
\* treeBuilder.initialize(parseResult.individuals, parseResult.families)
InitializeCall(inds, fams) ==
    /\ tbIndividuals' = initialize(tbIndividuals, inds)
    /\ tbFamilies' = initialize(tbFamilies, fams)
    /\ initHistory' = Append(initHistory, [individuals |-> inds, families |-> fams])
    /\ tpc' = "ready"
    /\ UNCHANGED <<tbRootPerson, tbMaxGenerations, tbTreeType, call, tree,
                   prevCall, prevTree, nextOid, rootCall, rootFound,
                   frames, created, popup, readers>>
    /\ UNCHANGED parserVars

\* the popup's call, on the records a successful parse returned
Initialize ==
    /\ pc = "done"
    /\ result.success
    /\ tpc = "new"
    /\ InitializeCall(result.individuals, result.families)

\* treeBuilder.buildTree(rootPersonId, options)
BuildTreeCall(rootPersonId, options) ==
    /\ call' = [rootPersonId   |-> rootPersonId,
                treeType       |-> Option(options, "treeType", DefaultTreeType),
                maxGenerations |-> Option(options, "maxGenerations",
                                          DefaultMaxGenerations)]
    /\ tbMaxGenerations' = call'.maxGenerations
    /\ tbTreeType' = call'.treeType
    /\ tbRootPerson' = IF MapHas(tbIndividuals, rootPersonId)
                       THEN rootPersonId ELSE UNDEFINED
    /\ tree' = buildTree(tbIndividuals, tbFamilies, rootPersonId, options, nextOid)
    /\ nextOid' = nextOid + NodesAllocated(tbIndividuals, tbFamilies, rootPersonId, options)
    /\ prevCall' = call
    /\ prevTree' = tree
    /\ UNCHANGED <<tbIndividuals, tbFamilies, initHistory, rootCall, rootFound,
                   frames, created, popup, readers>>
    /\ UNCHANGED parserVars

\* the first buildTree call on the builder as it was initialized
BuildTree(rootPersonId, options) ==
    /\ tpc = "ready"
    /\ tpc' = "built"
    /\ BuildTreeCall(rootPersonId, options)

\* a second buildTree call on the same builder
BuildTreeAgain(rootPersonId, options) ==
    /\ tpc = "built"
    /\ tpc' = "rebuilt"
    /\ BuildTreeCall(rootPersonId, options)

(***************************************************************************)
(* Specifications.                                                         *)
(***************************************************************************)
\* a parse of a text of family lines
Next == ParseBegin \/ ParseLinesStep \/ ParseEnd

Spec == Init /\ [][Next]_vars

\* a parse of one individual with life events, then the tree of that individual
DatesOptions ==
    { [treeType |-> t, maxGenerations |-> 1, given |-> {"treeType", "maxGenerations"}] :
        t \in TreeTypes }

NextDates ==
    \/ ParseBegin
    \/ ParseLinesStep
    \/ ParseEnd
    \/ Initialize
    \/ \E o \in DatesOptions : BuildTree(I1, o)

SpecDates == InitDates /\ [][NextDates]_vars

\* a parse of two individuals and one family
NextLink == ParseBegin \/ ParseLinesStep \/ ParseEnd

SpecLink == InitLink /\ [][NextLink]_vars

\* trees built over the graphs
NextTree == \E r \in RootChoices, o \in OptionChoices : BuildTree(r, o)

SpecTree == InitTree /\ [][NextTree]_vars

\* the sample file parsed, loaded and built
SampleRoots == {I1, I3, <<"@", "I", "5", "@">>, <<"@", "N", "O", "P", "E", "@">>}

NextSample ==
    \/ ParseBegin
    \/ ParseLinesStep
    \/ ParseEnd
    \/ Initialize
    \/ \E r \in SampleRoots, o \in OptionChoices : BuildTree(r, o)

SpecSample == InitSample /\ [][NextSample]_vars

(***************************************************************************)
\* the initialize calls of one builder: each call replaces the records
MaxInitialize == 3

\* the record arrays handed to initialize: two individuals and their family;
\* one other individual; another record for @I1@ beside @I3@
InitializeChoices ==
    { [individuals |-> << GraphIndividual(I1, <<"M">>, <<F1>>, <<>>),
                          GraphIndividual(I2, <<"F">>, <<>>, <<F1>>) >>,
       families    |-> << [createFamilyRecord(F1) EXCEPT
                              !.wife = I2, !.children = <<I1>>] >>],
      [individuals |-> << GraphIndividual(I3, <<"U">>, <<>>, <<>>) >>,
       families    |-> <<>>],
      [individuals |-> << GraphIndividual(I1, <<"F">>, <<>>, <<F2>>),
                          GraphIndividual(I3, <<"M">>, <<F2>>, <<>>) >>,
       families    |-> << [createFamilyRecord(F2) EXCEPT
                              !.wife = I1, !.children = <<I3>>] >>] }

ReloadOptions ==
    { [treeType |-> t, maxGenerations |-> 2, given |-> {"treeType", "maxGenerations"}] :
         t \in {"ancestors", "descendants"} }

\* a tree builder as its constructor leaves it, with no parse going on
InitReload ==
    /\ content = <<>>
    /\ pc = "idle"
    /\ rawData = NULL
    /\ individuals = <<>>
    /\ families = <<>>
    /\ errors = <<>>
    /\ warnings = <<>>
    /\ lines = <<>>
    /\ idx = 0
    /\ currentRecord = NoRecord
    /\ recordStack = <<>>
    /\ result = NoResult
    /\ tbIndividuals = <<>>
    /\ tbFamilies = <<>>
    /\ tbRootPerson = NULL
    /\ tbMaxGenerations = DefaultMaxGenerations
    /\ tbTreeType = "ancestors"
    /\ tpc = "new"
    /\ call = NoCall
    /\ tree = NoTree
    /\ prevCall = NoCall
    /\ prevTree = NoTree
    /\ nextOid = 1
    /\ initHistory = <<>>
    /\ rootCall = NoRootCall
    /\ rootFound = NoRootFound
    /\ frames = <<>>
    /\ created = 0
    /\ popup = PopupStart
    /\ readers = <<>>

\* treeBuilder.initialize(individuals, families), on a new or a used builder
InitializeWith(inds, fams) ==
    /\ tpc \in {"new", "ready", "built"}
    /\ Len(initHistory) < MaxInitialize
    /\ InitializeCall(inds, fams)

\* a builder initialized again and again, a tree built after each call
NextReload ==
    \/ \E d \in InitializeChoices : InitializeWith(d.individuals, d.families)
    \/ \E r \in {I1, I3}, o \in ReloadOptions : BuildTree(r, o)

SpecReload == InitReload /\ [][NextReload]_vars

\* the individuals handed to findRootPerson: at most MaxPeople of them
MaxPeople == 3

PersonIds == << I1, I2, I3, <<"@", "I", "4", "@">>, <<"@", "I", "5", "@">> >>

PersonSexes == << <<"M">>, <<"F">>, <<"M">>, <<"F">>, <<"U">> >>

PersonBirthDates ==
    << <<"1", "9", "5", "0">>, <<"A", "B", "T", " ", "1", "9", "2", "0">>,
       <<"1", "8", "9", "0">>, <<"1", "9", "9", "0">>, <<"1", "9", "0", "0">> >>

\* no NAME line, a given name alone, a given name and a surname
NameChoices ==
    { <<>>, <<"A", "l">>, <<"A", "l", " ", "/", "S", "m", "i", "t", "h", "/">> }

\* the k-th individual of the list, as its lines give it
PersonChoice(k, nameValue, dated) ==
    [parseName(nameValue, createIndividualRecord(PersonIds[k])) EXCEPT
        !.sex = PersonSexes[k],
        !.birth.date = IF dated THEN parseDate(PersonBirthDates[k]) ELSE NoDate,
        !.families.spouse = IF k = 2 THEN <<F1>> ELSE <<>>]

PeopleChoices ==
    UNION { { [k \in 1..n |-> PersonChoice(k, f[k][1], f[k][2])] :
                f \in [1..n -> NameChoices \X BOOLEAN] } : n \in 0..MaxPeople }

PreferenceKeys == {"useFirst", "preferEarliest", "preferMostConnections", "preferMales"}

PreferenceChoices ==
    { [useFirst |-> u, preferEarliest |-> e, preferMostConnections |-> c,
       preferMales |-> m, given |-> PreferenceKeys] :
         u \in BOOLEAN, e \in BOOLEAN, c \in BOOLEAN, m \in BOOLEAN }
    \cup { [useFirst |-> FALSE, preferEarliest |-> FALSE, preferMostConnections |-> FALSE,
             preferMales |-> FALSE, given |-> {}] }

\* findRootPerson is about to be called on some list and preferences
InitRoot ==
    /\ content = <<>>
    /\ pc = "idle"
    /\ rawData = NULL
    /\ individuals = <<>>
    /\ families = <<>>
    /\ errors = <<>>
    /\ warnings = <<>>
    /\ lines = <<>>
    /\ idx = 0
    /\ currentRecord = NoRecord
    /\ recordStack = <<>>
    /\ result = NoResult
    /\ tbIndividuals = <<>>
    /\ tbFamilies = <<>>
    /\ tbRootPerson = NULL
    /\ tbMaxGenerations = DefaultMaxGenerations
    /\ tbTreeType = "ancestors"
    /\ tpc = "new"
    /\ call = NoCall
    /\ tree = NoTree
    /\ prevCall = NoCall
    /\ prevTree = NoTree
    /\ nextOid = 1
    /\ initHistory = <<>>
    /\ \E people \in PeopleChoices, preferences \in PreferenceChoices :
          rootCall = [individuals |-> people, preferences |-> preferences]
    /\ rootFound = NoRootFound
    /\ frames = <<>>
    /\ created = 0
    /\ popup = PopupStart
    /\ readers = <<>>

\* treeBuilder.findRootPerson(individuals, preferences)
FindRootPerson ==
    /\ ~rootFound.called
    /\ rootFound' = [called |-> TRUE,
                     id     |-> findRootPerson(rootCall.individuals,
                                               rootCall.preferences).id,
                     scored |-> findRootPerson(rootCall.individuals,
                                               rootCall.preferences).scored]
    /\ UNCHANGED <<tbIndividuals, tbFamilies, tbRootPerson, tbMaxGenerations,
                   tbTreeType, tpc, call, tree, prevCall, prevTree, nextOid,
                   initHistory, rootCall, frames, created, popup, readers>>
    /\ UNCHANGED parserVars

NextRoot == FindRootPerson

SpecRoot == InitRoot /\ [][NextRoot]_vars

\* the options of the calls of a builder that is asked twice
RepeatOptions ==
    { [treeType |-> t, maxGenerations |-> g, given |-> {"treeType", "maxGenerations"}] :
         t \in TreeTypes \cup {"siblings"}, g \in {2, MaxGenerations} }
    \cup { [treeType |-> "undefined", maxGenerations |-> 0, given |-> {}] }

\* a tree builder initialized with the linked records of one of fewer graphs
InitRepeat ==
    /\ content = <<>>
    /\ pc = "idle"
    /\ rawData = NULL
    /\ individuals = <<>>
    /\ families = <<>>
    /\ errors = <<>>
    /\ warnings = <<>>
    /\ lines = <<>>
    /\ idx = 0
    /\ currentRecord = NoRecord
    /\ recordStack = <<>>
    /\ result = NoResult
    /\ \E c1 \in {<<>>, <<F1>>}, c3 \in {<<>>, <<F2>>},
          s1 \in SpouseChoices, s2 \in {<<>>, <<F1>>}, s3 \in {<<>>, <<F2, F1>>},
          fs \in FamilyChoices :
          LET inds == << GraphIndividual(I1, <<"M">>, c1, s1),
                         GraphIndividual(I2, <<"F">>, <<>>, s2),
                         GraphIndividual(I3, <<"U">>, c3, s3) >>
          IN /\ tbIndividuals = initialize(<<>>, inds)
             /\ tbFamilies = initialize(<<>>, linkFamilyRelationships(inds, fs))
             /\ initHistory = << [individuals |-> inds,
                                  families    |-> linkFamilyRelationships(inds, fs)] >>
    /\ tbRootPerson = NULL
    /\ tbMaxGenerations = DefaultMaxGenerations
    /\ tbTreeType = "ancestors"
    /\ tpc = "ready"
    /\ call = NoCall
    /\ tree = NoTree
    /\ prevCall = NoCall
    /\ prevTree = NoTree
    /\ nextOid = 1
    /\ rootCall = NoRootCall
    /\ rootFound = NoRootFound
    /\ frames = <<>>
    /\ created = 0
    /\ popup = PopupStart
    /\ readers = <<>>

\* two buildTree calls on one builder, nothing else between them
NextRepeat ==
    \/ \E r \in RootChoices, o \in RepeatOptions : BuildTree(r, o)
    \/ \E r \in RootChoices, o \in RepeatOptions : BuildTreeAgain(r, o)

SpecRepeat == InitRepeat /\ [][NextRepeat]_vars

\* a parse of the text of one record with events
NextEvents == ParseBegin \/ ParseLinesStep \/ ParseEnd

SpecEvents == InitEvents /\ [][NextEvents]_vars

(***************************************************************************)
(* buildTree call by call: frames holds the calls of buildAncestorTree and *)
(* buildDescendantTree that are still to be made, the next one first.      *)
(***************************************************************************)
Frame(kind, personId, generation) ==
    [kind |-> kind, personId |-> personId, generation |-> generation]

\* the calls the switch of buildTree makes for the root
RootFrames(treeType, rootPersonId) ==
    CASE treeType = "ancestors"   -> << Frame("ancestor", rootPersonId, 0) >>
      [] treeType = "descendants" -> << Frame("descendant", rootPersonId, 0) >>
      [] treeType = "both"        -> << Frame("ancestor", rootPersonId, 0),
                                        Frame("descendant", rootPersonId, 0) >>

\* the recursive calls of buildAncestorTree for a person: father, mother
AncestorCallees(person, generation) ==
    IF /\ Len(person.families.child) > 0
       /\ MapHas(tbFamilies, ParentFamilyId(person.families.child))
    THEN LET parentFamily == MapGet(tbFamilies, ParentFamilyId(person.families.child))
         IN (IF Truthy(parentFamily.husband)
             THEN << Frame("ancestor", parentFamily.husband, generation + 1) >>
             ELSE <<>>)
            \o (IF Truthy(parentFamily.wife)
                THEN << Frame("ancestor", parentFamily.wife, generation + 1) >>
                ELSE <<>>)
    ELSE <<>>

\* the recursive calls of buildDescendantTree for a person: the children of
\* the spouse families from the k-th on
RECURSIVE DescendantCallees(_, _, _)
DescendantCallees(person, k, generation) ==
    IF k > Len(person.families.spouse) THEN <<>>
    ELSE (IF MapHas(tbFamilies, person.families.spouse[k])
          THEN [c \in 1..Len(MapGet(tbFamilies, person.families.spouse[k]).children) |->
                   Frame("descendant",
                         MapGet(tbFamilies, person.families.spouse[k]).children[c],
                         generation + 1)]
          ELSE <<>>)
         \o DescendantCallees(person, k + 1, generation)

\* buildTree up to its switch: the options, the root lookup, the raises
BuildTreeEnter(rootPersonId, options) ==
    /\ tpc = "ready"
    /\ call' = [rootPersonId   |-> rootPersonId,
                treeType       |-> Option(options, "treeType", DefaultTreeType),
                maxGenerations |-> Option(options, "maxGenerations",
                                          DefaultMaxGenerations)]
    /\ tbMaxGenerations' = call'.maxGenerations
    /\ tbTreeType' = call'.treeType
    /\ tbRootPerson' = IF MapHas(tbIndividuals, rootPersonId)
                       THEN rootPersonId ELSE UNDEFINED
    /\ prevCall' = call
    /\ prevTree' = tree
    /\ created' = 0
    /\ IF ~MapHas(tbIndividuals, rootPersonId) \/ call'.treeType \notin TreeTypes
       THEN /\ tree' = buildTree(tbIndividuals, tbFamilies, rootPersonId, options, nextOid)
            /\ frames' = <<>>
            /\ tpc' = "built"
       ELSE /\ tree' = tree
            /\ frames' = RootFrames(call'.treeType, rootPersonId)
            /\ tpc' = "building"
    /\ UNCHANGED <<tbIndividuals, tbFamilies, nextOid, initHistory, rootCall, rootFound,
                   popup, readers>>
    /\ UNCHANGED parserVars

\* one call of buildAncestorTree or buildDescendantTree: null for an unknown
\* person or at the depth bound, else a node and the calls for its relatives
RecursionStep ==
    /\ tpc = "building"
    /\ frames # <<>>
    /\ IF \/ ~MapHas(tbIndividuals, Head(frames).personId)
          \/ AtDepthBound(Head(frames).generation, tbMaxGenerations)
       THEN /\ frames' = Tail(frames)
            /\ created' = created
       ELSE /\ created' = created + 1
            /\ frames' =
                  (IF Head(frames).kind = "ancestor"
                   THEN AncestorCallees(MapGet(tbIndividuals, Head(frames).personId),
                                        Head(frames).generation)
                   ELSE DescendantCallees(MapGet(tbIndividuals, Head(frames).personId),
                                          1, Head(frames).generation))
                  \o Tail(frames)
    /\ UNCHANGED <<tbIndividuals, tbFamilies, tbRootPerson, tbMaxGenerations,
                   tbTreeType, tpc, call, tree, prevCall, prevTree, nextOid,
                   initHistory, rootCall, rootFound, popup, readers>>
    /\ UNCHANGED parserVars

\* the last call has returned: buildTree returns the tree with its metadata
BuildTreeReturn ==
    /\ tpc = "building"
    /\ frames = <<>>
    /\ tree' = buildTree(tbIndividuals, tbFamilies, call.rootPersonId,
                         [treeType |-> call.treeType,
                          maxGenerations |-> call.maxGenerations,
                          given |-> {"treeType", "maxGenerations"}],
                         nextOid)
    /\ nextOid' = nextOid + created
    /\ tpc' = "built"
    /\ UNCHANGED <<tbIndividuals, tbFamilies, tbRootPerson, tbMaxGenerations,
                   tbTreeType, call, prevCall, prevTree, initHistory, rootCall,
                   rootFound, frames, created, popup, readers>>
    /\ UNCHANGED parserVars

StepOptions ==
    { [treeType |-> t, maxGenerations |-> g, given |-> {"treeType", "maxGenerations"}] :
         t \in TreeTypes \cup {"siblings"}, g \in {0, 1, MaxGenerations} }

NextSteps ==
    \/ \E r \in RootChoices, o \in StepOptions : BuildTreeEnter(r, o)
    \/ RecursionStep
    \/ BuildTreeReturn

\* a buildTree call followed call by call
SpecSteps == InitRepeat /\ [][NextSteps]_vars

(***************************************************************************)
(* The popup: its handlers and the callbacks of its file readers and of    *)
(* its requests to the browser, each one a step of the event loop.         *)
(***************************************************************************)
MaxSelections == 2

MaxGenerates == 1

\* the files the user can pick: a name and the text the reader delivers
PopupFiles ==
    { [name    |-> <<"a", ".", "g", "e", "d">>,
       content |-> <<"0">> \o SP \o I1 \o SP \o TAG_INDI],
      [name    |-> <<"B", ".", "G", "E", "D">>,
       content |-> <<"i", "n", "v", "a", "l", "i", "d">>],
      [name    |-> <<"e", ".", "g", "e", "d", "c", "o", "m">>,
       content |-> <<>>],
      [name    |-> <<"c", ".", "t", "x", "t">>,
       content |-> <<"0">> \o SP \o I1 \o SP \o TAG_INDI],
      [name    |-> <<"g", "e", "d">>,
       content |-> <<"0">> \o SP \o I1 \o SP \o TAG_INDI] }

\* the values of the generations slider
GenerationChoices == {1, MaxGenerations}

\* the preferences of the popup's findRootPerson call
UseFirst == [useFirst |-> TRUE, given |-> {"useFirst"}]

\* the popup's window is open: its handlers and callbacks can still run
PopupOpen == popup.request # "closed"

\* a list without its k-th element
RemoveAt(seq, k) == SubSeq(seq, 1, k - 1) \o SubSeq(seq, k + 1, Len(seq))

\* parser.parse(text) as one step: the parser's fields as the call leaves them
ParseCall(text) ==
    \E pre \in {preprocessLines(text)} :
    \E st \in {parseLines(pre.lines)} :
        /\ content' = text
        /\ rawData' = text
        /\ lines' = pre.lines
        /\ warnings' = pre.warnings
        /\ individuals' = st.individuals
        /\ families' = IF st.threw THEN st.families
                       ELSE linkFamilyRelationships(st.individuals, st.families)
        /\ errors' = IF st.threw THEN <<CriticalError(TypeErrorMessage)>> ELSE <<>>
        /\ currentRecord' = st.currentRecord
        /\ recordStack' = st.recordStack
        /\ result' = parse(text)
        /\ UNCHANGED <<pc, idx>>

\* handleFileSelect for the file the user picked after a click on the upload
\* button: the change event fires when the input's value changes
HandleFileSelect(file) ==
    /\ PopupOpen
    /\ popup.uploadBtn # "none"
    /\ popup.selections < MaxSelections
    /\ file.name # popup.fileInputValue
    /\ IF ~isValidGedcomFile(file)
       THEN /\ popup' = [popup EXCEPT !.fileInputValue = file.name,
                                      !.status         = showStatus("error"),
                                      !.selections     = @ + 1,
                                      !.cleared        = FALSE]
            /\ UNCHANGED readers
       ELSE /\ popup' = [popup EXCEPT !.fileInputValue = file.name,
                                      !.selectedFile   = <<file>>,
                                      !.uploadBtn      = "none",
                                      !.fileInfo       = "flex",
                                      !.status         = showStatus("info"),
                                      !.selections     = @ + 1,
                                      !.cleared        = FALSE]
            /\ readers' = Append(readers, [file      |-> file,
                                           selection |-> popup.selections + 1])
    /\ UNCHANGED <<tbIndividuals, tbFamilies, tbRootPerson, tbMaxGenerations,
                   tbTreeType, tpc, call, tree, prevCall, prevTree, nextOid,
                   initHistory, rootCall, rootFound, frames, created>>
    /\ UNCHANGED parserVars

\* reader.onload of one of the reads in progress
ReaderOnload(k) ==
    /\ PopupOpen
    /\ k \in 1..Len(readers)
    /\ ParseCall(readers[k].file.content)
    /\ popup' = [popup EXCEPT
                    !.parsedData = << [data      |-> result',
                                       selection |-> readers[k].selection] >>,
                    !.controls   = IF result'.success THEN "block" ELSE "none",
                    !.status     = showStatus(IF result'.success THEN "success"
                                              ELSE "error")]
    /\ readers' = RemoveAt(readers, k)
    /\ UNCHANGED <<tbIndividuals, tbFamilies, tbRootPerson, tbMaxGenerations,
                   tbTreeType, tpc, call, tree, prevCall, prevTree, nextOid,
                   initHistory, rootCall, rootFound, frames, created>>

\* reader.onerror of one of the reads in progress
ReaderOnerror(k) ==
    /\ PopupOpen
    /\ k \in 1..Len(readers)
    /\ popup' = [popup EXCEPT !.controls = "none",
                              !.status   = showStatus("error")]
    /\ readers' = RemoveAt(readers, k)
    /\ UNCHANGED <<tbIndividuals, tbFamilies, tbRootPerson, tbMaxGenerations,
                   tbTreeType, tpc, call, tree, prevCall, prevTree, nextOid,
                   initHistory, rootCall, rootFound, frames, created>>
    /\ UNCHANGED parserVars

\* clearSelectedFile, on a click on the clear button of the file info
ClearSelectedFile ==
    /\ PopupOpen
    /\ popup.fileInfo # "none"
    /\ popup' = [popup EXCEPT !.selectedFile   = <<>>,
                              !.parsedData     = <<>>,
                              !.fileInputValue = <<>>,
                              !.uploadBtn      = "flex",
                              !.fileInfo       = "none",
                              !.controls       = "none",
                              !.status.display = "none",
                              !.cleared        = TRUE]
    /\ UNCHANGED <<tbIndividuals, tbFamilies, tbRootPerson, tbMaxGenerations,
                   tbTreeType, tpc, call, tree, prevCall, prevTree, nextOid,
                   initHistory, rootCall, rootFound, frames, created, readers>>
    /\ UNCHANGED parserVars

\* generateFamilyTree with the slider at the value, down to the request
\* processTreeData sends to chrome.storage
GenerateFamilyTree(generations) ==
    /\ PopupOpen
    /\ popup.controls # "none"
    /\ popup.generates < MaxGenerates
    /\ IF popup.parsedData = <<>> \/ ~popup.parsedData[1].data.success
       THEN /\ popup' = [popup EXCEPT !.status    = showStatus("error"),
                                      !.generates = @ + 1]
            /\ UNCHANGED <<tbIndividuals, tbFamilies, tbRootPerson, tbMaxGenerations,
                           tbTreeType, tpc, call, tree, prevCall, prevTree, nextOid,
                           initHistory, rootCall, rootFound>>
       ELSE \E data \in {popup.parsedData[1].data} :
            \E root \in {findRootPerson(data.individuals, UseFirst)} :
            \E options \in {[treeType |-> "ancestors", maxGenerations |-> generations,
                             given |-> {"treeType", "maxGenerations"}]} :
               /\ tbIndividuals' = initialize(tbIndividuals, data.individuals)
               /\ tbFamilies' = initialize(tbFamilies, data.families)
               /\ initHistory' = Append(initHistory, [individuals |-> data.individuals,
                                                      families    |-> data.families])
               /\ rootCall' = [individuals |-> data.individuals, preferences |-> UseFirst]
               /\ rootFound' = [called |-> TRUE, id |-> root.id, scored |-> root.scored]
               /\ IF root.id = NULL
                  THEN /\ popup' = [popup EXCEPT !.status    = showStatus("error"),
                                                 !.generates = @ + 1]
                       /\ tpc' = "ready"
                       /\ UNCHANGED <<tbRootPerson, tbMaxGenerations, tbTreeType, call,
                                      tree, prevCall, prevTree, nextOid>>
                  ELSE /\ call' = [rootPersonId   |-> root.id,
                                   treeType       |-> "ancestors",
                                   maxGenerations |-> generations]
                       /\ tbMaxGenerations' = generations
                       /\ tbTreeType' = "ancestors"
                       /\ tbRootPerson' = root.id
                       /\ tree' = buildTree(tbIndividuals', tbFamilies', root.id,
                                            options, nextOid)
                       /\ nextOid' = nextOid + NodesAllocated(tbIndividuals', tbFamilies',
                                                              root.id, options)
                       /\ prevCall' = call
                       /\ prevTree' = tree
                       /\ tpc' = "built"
                       /\ popup' = [popup EXCEPT
                                       !.status    = showStatus("info"),
                                       !.request   = "storage",
                                       !.requested = popup.parsedData[1].selection,
                                       !.generates = @ + 1]
    /\ UNCHANGED <<frames, created, readers>>
    /\ UNCHANGED parserVars

\* the callback of chrome.storage.local.set, with or without lastError
StorageCallback(lastError) ==
    /\ PopupOpen
    /\ popup.request = "storage"
    /\ popup' = IF lastError
                THEN [popup EXCEPT !.status  = showStatus("error"),
                                   !.request = "none"]
                ELSE [popup EXCEPT !.stored  = popup.requested,
                                   !.request = "tab"]
    /\ UNCHANGED <<tbIndividuals, tbFamilies, tbRootPerson, tbMaxGenerations,
                   tbTreeType, tpc, call, tree, prevCall, prevTree, nextOid,
                   initHistory, rootCall, rootFound, frames, created, readers>>
    /\ UNCHANGED parserVars

\* the callback of chrome.tabs.create, with or without lastError
TabCallback(lastError) ==
    /\ PopupOpen
    /\ popup.request = "tab"
    /\ popup' = IF lastError
                THEN [popup EXCEPT !.status  = showStatus("error"),
                                   !.request = "none"]
                ELSE [popup EXCEPT !.status  = showStatus("success"),
                                   !.request = "closing"]
    /\ UNCHANGED <<tbIndividuals, tbFamilies, tbRootPerson, tbMaxGenerations,
                   tbTreeType, tpc, call, tree, prevCall, prevTree, nextOid,
                   initHistory, rootCall, rootFound, frames, created, readers>>
    /\ UNCHANGED parserVars

\* window.close() of the timer set when the viewer tab opened
WindowClose ==
    /\ popup.request = "closing"
    /\ popup' = [popup EXCEPT !.request = "closed"]
    /\ UNCHANGED <<tbIndividuals, tbFamilies, tbRootPerson, tbMaxGenerations,
                   tbTreeType, tpc, call, tree, prevCall, prevTree, nextOid,
                   initHistory, rootCall, rootFound, frames, created, readers>>
    /\ UNCHANGED parserVars

\* the popup as it opens
InitPopup ==
    /\ content = <<>>
    /\ Constructed

NextPopup ==
    \/ \E file \in PopupFiles : HandleFileSelect(file)
    \/ \E k \in 1..MaxSelections : ReaderOnload(k)
    \/ \E k \in 1..MaxSelections : ReaderOnerror(k)
    \/ ClearSelectedFile
    \/ \E generations \in GenerationChoices : GenerateFamilyTree(generations)
    \/ \E lastError \in BOOLEAN : StorageCallback(lastError)
    \/ \E lastError \in BOOLEAN : TabCallback(lastError)
    \/ WindowClose

SpecPopup == InitPopup /\ [][NextPopup]_vars

(***************************************************************************)
(* Helpers of the properties.                                              *)
(***************************************************************************)
Returned == pc = "done"

Succeeded == pc = "done" /\ result.success

\* the raw lines of the text and those among them that are not blank and
\* fail the grammar
RawLines == SplitLines(content)

InvalidLines ==
    {i \in 1..Len(RawLines) :
        Trim(RawLines[i]) # <<>> /\ ~LineMatch(Trim(RawLines[i])).matched}

\* the text without its invalid lines
ContentWithoutInvalid ==
    LET Valid(e) == ~(Trim(e) # <<>> /\ ~LineMatch(Trim(e)).matched)
    IN JoinLines(SelectSeq(RawLines, Valid))

\* the families as the lines alone give them, before the post-pass
FamiliesBeforeLink == parseLines(lines).families

NoDuplicates(seq) ==
    \A a \in 1..Len(seq), b \in 1..Len(seq) : seq[a] = seq[b] => a = b

\* the lines of the record of family fid that is in the mapping: those after
\* the last level-0 FAM line with that id, up to the next level-0 line
RecordStart(fid) ==
    CHOOSE i \in 1..Len(lines) :
        /\ lines[i].level = 0 /\ lines[i].tag = TAG_FAM /\ lines[i].xref = fid
        /\ \A j \in (i + 1)..Len(lines) :
              ~(lines[j].level = 0 /\ lines[j].tag = TAG_FAM /\ lines[j].xref = fid)

RecordLines(fid) ==
    {i \in (RecordStart(fid) + 1)..Len(lines) :
        \A j \in (RecordStart(fid) + 1)..i : lines[j].level > 0}

\* what the last line with the tag in the record of fid resolves to, null
\* when the record has no such line
LastResolved(fid, tag) ==
    LET ls == {i \in RecordLines(fid) : lines[i].tag = tag}
    IN IF ls = {} THEN NULL
       ELSE ResolveId(lines[CHOOSE i \in ls : \A j \in ls : j <= i])

\* the record under construction is a family and the loop is at a line of it
InFamilyRecord ==
    /\ pc = "parseLines"
    /\ idx <= Len(lines)
    /\ lines[idx].level > 0
    /\ currentRecord.type = "family"

\* the nodes of a list of trees, through children and parents
RECURSIVE NodesOf(_)
NodesOf(nodes) ==
    IF nodes = <<>> THEN {}
    ELSE {nodes[1]} \cup NodesOf(nodes[1].children) \cup NodesOf(nodes[1].parents)
         \cup NodesOf(Tail(nodes))

Built == tpc = "built" /\ ~tree.raised

\* every node under node is one generation deeper, within the bound
RECURSIVE GenerationsFrom(_, _, _)
GenerationsFrom(node, generation, maxGen) ==
    /\ node.generation = generation
    /\ 0 <= node.generation
    /\ node.generation < maxGen
    /\ \A k \in 1..Len(node.children) :
          GenerationsFrom(node.children[k], generation + 1, maxGen)
    /\ \A k \in 1..Len(node.parents) :
          GenerationsFrom(node.parents[k], generation + 1, maxGen)

I5 == <<"@", "I", "5", "@">>
I6 == <<"@", "I", "6", "@">>

(***************************************************************************)
(* Properties.                                                             *)
(***************************************************************************)
\* C1: parse of the empty text returns success = false.
C1_EmptyTextFails ==
    (Returned /\ content = <<>>) => result.success = FALSE

\* C2: parse always returns: a throw inside the loop is caught, the call is
\* at no other position than before, inside or after its loop, and what it
\* returns is either success = true with individuals, families, stats, errors
\* and warnings, or success = false with an error message and the accumulated
\* errors and warnings, and no individuals or families field.
C2_ParseReturnsNormally ==
    /\ pc \in {"call", "parseLines", "done"}
    /\ pc = "parseLines" => idx \in 1..(Len(lines) + 1)
    /\ Returned =>
          IF result.success
          THEN /\ DOMAIN result = {"success", "individuals", "families", "stats",
                                    "errors", "warnings"}
               /\ result.errors = errors
               /\ result.warnings = warnings
          ELSE /\ DOMAIN result = {"success", "error", "errors", "warnings"}
               /\ result.error = TypeErrorMessage
               /\ result.errors = errors
               /\ Len(errors) = 1
               /\ result.warnings = warnings

C2_Witness ==
    Returned /\ ~result.success /\ Len(result.warnings) > 0

\* C3: each non-blank line failing the grammar adds exactly one warning and
\* is dropped: the parse returns what it returns for the text without these
\* lines (same success, same individuals, same families).
C3_InvalidLineDropped ==
    Returned =>
       /\ Len(warnings) = Cardinality(InvalidLines)
       /\ \A i \in InvalidLines :
             Cardinality({k \in 1..Len(warnings) : warnings[k].lineNumber = i}) = 1
       /\ LET other == parse(ContentWithoutInvalid)
          IN /\ other.success = result.success
             /\ result.success =>
                   /\ result.individuals = other.individuals
                   /\ result.families = other.families

C3_Witness ==
    /\ Succeeded
    /\ \E i \in InvalidLines : \E k \in 1..Len(lines) :
          lines[k].lineNumber > i /\ lines[k].tag = TAG_CHIL
    /\ \E f \in 1..Len(result.families) : result.families[f].children # <<>>

\* C4: buildTree raises exactly when the root id is absent ("not found") or
\* the root exists and the tree type is unknown; it then returns no tree;
\* otherwise it returns root and metadata.
C4_BuildTreeRaises ==
    tpc = "built" =>
       /\ tree.raised <=> (\/ ~MapHas(tbIndividuals, call.rootPersonId)
                           \/ call.treeType \notin TreeTypes)
       /\ tree.raised =>
             /\ "root" \notin DOMAIN tree
             /\ tree.error = IF ~MapHas(tbIndividuals, call.rootPersonId)
                             THEN "not found" ELSE "Unknown tree type"
       /\ ~tree.raised => DOMAIN tree = {"raised", "error", "root", "metadata"}

C4_Witness ==
    /\ tpc = "built"
    /\ tree.raised
    /\ tree.error = "Unknown tree type"
    /\ MapHas(tbIndividuals, call.rootPersonId)

\* C5: in every tree returned, every node has 0 <= generation <
\* maxGenerations and is one generation deeper than the node it hangs under.
C5_GenerationBound ==
    (Built /\ tree.root # <<>>) =>
       GenerationsFrom(tree.root[1], 0, call.maxGenerations)

\* a node at the last generation whose father has a record: he is pruned
C5_Witness ==
    /\ Built
    /\ call.treeType = "both"
    /\ \E n \in NodesOf(tree.root) :
          /\ n.generation = call.maxGenerations - 1
          /\ n.generation >= 1
          /\ n.relationship = "father"
          /\ n.parents = <<>>
          /\ LET person == MapGet(tbIndividuals, n.id)
             IN /\ Len(person.families.child) > 0
                /\ MapHas(tbFamilies, person.families.child[1])
                /\ MapHas(tbIndividuals,
                          MapGet(tbFamilies, person.families.child[1]).husband)

\* C6: the sample file parses to 6 individuals and 2 families, and the
\* ancestor tree of @I1@ with maxGenerations 3 has root @I1@ at generation 0
\* with exactly the parents father @I5@, mother @I6@ at generation 1, both
\* without parents.
C6_SampleAncestors ==
    /\ Returned =>
          /\ result.success
          /\ Len(result.individuals) = 6
          /\ Len(result.families) = 2
    /\ (tpc = "built" /\ call = [rootPersonId |-> I1, treeType |-> "ancestors",
                                  maxGenerations |-> 3]) =>
          /\ ~tree.raised
          /\ tree.root # <<>>
          /\ tree.root[1].id = I1
          /\ tree.root[1].generation = 0
          /\ Len(tree.root[1].parents) = 2
          /\ tree.root[1].parents[1].id = I5
          /\ tree.root[1].parents[1].relationship = "father"
          /\ tree.root[1].parents[2].id = I6
          /\ tree.root[1].parents[2].relationship = "mother"
          /\ \A k \in 1..2 :
                /\ tree.root[1].parents[k].generation = 1
                /\ tree.root[1].parents[k].parents = <<>>

C6_Witness ==
    /\ tpc = "built"
    /\ call = [rootPersonId |-> I1, treeType |-> "ancestors", maxGenerations |-> 3]
    /\ ~tree.raised

\* C7: after parse, every individual is among the children of each family of
\* its families.child that exists in the family mapping.
C7_ChildFamilyListsChild ==
    Succeeded =>
       \A n \in 1..Len(result.individuals) :
          LET person == result.individuals[n]
          IN \A k \in 1..Len(person.families.child) :
                MapHas(result.families, person.families.child[k]) =>
                   Includes(MapGet(result.families, person.families.child[k]).children,
                            person.id)

\* a family whose lines did not list the individual: the post-pass added it
C7_Witness ==
    /\ Succeeded
    /\ \E n \in 1..Len(result.individuals) :
          LET person == result.individuals[n]
          IN \E k \in 1..Len(person.families.child) :
                /\ MapHas(result.families, person.families.child[k])
                /\ ~Includes(MapGet(FamiliesBeforeLink, person.families.child[k]).children,
                             person.id)

\* C8: after parse, every child id of a family whose individual exists has
\* the family in its families.child, or was added by the repair pass.
C8_ChildrenReciprocal ==
    Succeeded =>
       \A f \in 1..Len(result.families) :
          LET family == result.families[f]
          IN \A k \in 1..Len(family.children) :
                MapHas(result.individuals, family.children[k]) =>
                   \/ Includes(MapGet(result.individuals, family.children[k]).families.child,
                               family.id)
                   \/ ~Includes(MapGet(FamiliesBeforeLink, family.id).children,
                                family.children[k])

\* C9 as claimed: within a family record, once a HUSB (WIFE) line has stored
\* an id, no later line of the record changes or clears it.
C9_FirstSpouseLineWins ==
    [][InFamilyRecord /\ pc' = "parseLines" =>
          LET before == MapGet(families, currentRecord.id)
              after  == MapGet(families', currentRecord.id)
          IN /\ Truthy(before.husband) => after.husband = before.husband
             /\ Truthy(before.wife) => after.wife = before.wife]_vars

\* C9 as amended: when the lines are consumed, husband (wife) of a family is
\* what the last HUSB (WIFE) line of its record resolves to: an id, or
\* undefined when that line holds no id; null when the record has no such
\* line.
C9_LastSpouseLineWins ==
    (pc = "parseLines" /\ idx > Len(lines)) =>
       \A f \in 1..Len(families) :
          /\ families[f].husband = LastResolved(families[f].id, TAG_HUSB)
          /\ families[f].wife = LastResolved(families[f].id, TAG_WIFE)

\* a record with two HUSB lines, the first of which resolved to an id the
\* family does not keep
C9_Witness ==
    /\ pc = "parseLines"
    /\ idx > Len(lines)
    /\ \E f \in 1..Len(families) :
          \E i \in RecordLines(families[f].id), j \in RecordLines(families[f].id) :
             /\ i < j
             /\ lines[i].tag = TAG_HUSB
             /\ lines[j].tag = TAG_HUSB
             /\ Truthy(ResolveId(lines[i]))
             /\ families[f].husband # ResolveId(lines[i])

\* C10: after parse, no family lists an individual twice among its children,
\* and the ids of the CHIL lines appear in document order.
C10_ChildrenDeduplicated ==
    Succeeded =>
       \A f \in 1..Len(result.families) :
          /\ NoDuplicates(result.families[f].children)
          /\ LET fid  == result.families[f].id
                 Chil(k) == k \in RecordLines(fid) /\ lines[k].tag = TAG_CHIL
                                /\ Truthy(ResolveId(lines[k]))
                 ls   == SelectSeq([k \in 1..Len(lines) |-> k], Chil)
             IN /\ Len(ls) <= Len(result.families[f].children)
                /\ \A k \in 1..Len(ls) :
                      result.families[f].children[k] = ResolveId(lines[ls[k]])

\* the tags whose line names another record
LinkTags == {TAG_FAMC, TAG_FAMS, TAG_HUSB, TAG_WIFE, TAG_CHIL}

\* the line is a reference line from which no id can be read: it has no
\* inline xref and its value holds no token of the form @...@
NoIdLine(line) ==
    /\ line.tag \in LinkTags
    /\ line.level > 0
    /\ line.xref = NULL
    /\ XrefTokenStart(line.value) = 0

\* C11: a parse of a text that holds a FAMC, FAMS, HUSB, WIFE or CHIL line
\* from which no id can be read (the value may hold '@' characters that form
\* no token) drops the reference: the parse succeeds, no error is recorded
\* and every entry of a family list of the result is an id
C11_UnresolvedReferenceDropped ==
    (Returned /\ \E i \in 1..Len(lines) : NoIdLine(lines[i]))
        => /\ result.success
           /\ result.errors = <<>>
           /\ \A k \in 1..Len(result.individuals) :
                 \A e \in 1..Len(result.individuals[k].families.child) :
                    XrefTokenStart(result.individuals[k].families.child[e]) = 1

\* the ids of an array of records
IdsOf(array) == {array[k].id : k \in 1..Len(array)}

\* the map holds exactly the records of the array: one entry for each id of
\* the array, holding the last record the array has for that id
HoldsExactly(map, array) ==
    /\ IdsOf(map) = IdsOf(array)
    /\ NoDuplicates([k \in 1..Len(map) |-> map[k].id])
    /\ \A k \in 1..Len(map) :
          \E a \in 1..Len(array) :
             /\ array[a] = map[k]
             /\ \A b \in (a + 1)..Len(array) : array[b].id # map[k].id

LastInitialize == initHistory[Len(initHistory)]

\* C12: after any sequence of initialize calls the two mappings hold exactly
\* the records of the most recent call; a buildTree whose root id is not among
\* them raises 'not found', and no node of a built tree is a person outside
\* them
C12_MappingsAreLastCall ==
    initHistory # <<>>
        => /\ HoldsExactly(tbIndividuals, LastInitialize.individuals)
           /\ HoldsExactly(tbFamilies, LastInitialize.families)
           /\ (tpc = "built" /\ call.rootPersonId \notin IdsOf(LastInitialize.individuals))
                 => (tree.raised /\ tree.error = "not found")
           /\ Built => \A n \in NodesOf(tree.root) :
                          n.id \in IdsOf(LastInitialize.individuals)

\* a root that only an earlier initialize call supplied is not found
C12_Witness ==
    /\ tpc = "built"
    /\ Len(initHistory) >= 2
    /\ call.rootPersonId \in IdsOf(initHistory[1].individuals)
    /\ call.rootPersonId \notin IdsOf(LastInitialize.individuals)
    /\ tree.raised
    /\ tree.error = "not found"

\* the preferences of the call are the default ones
DefaultPreferences ==
    /\ Option(rootCall.preferences, "useFirst", TRUE)
    /\ ~Option(rootCall.preferences, "preferEarliest", FALSE)
    /\ ~Option(rootCall.preferences, "preferMostConnections", FALSE)
    /\ ~Option(rootCall.preferences, "preferMales", FALSE)

\* the positions of the list whose individual has a full or a given name
NamedPositions ==
    {k \in 1..Len(rootCall.individuals) :
        \/ rootCall.individuals[k].name.full # <<>>
        \/ rootCall.individuals[k].name.given # <<>>}

\* C13: under the default preferences findRootPerson returns the id of the
\* first individual, in input order, that has a full or a given name, and
\* computes no score; with nobody named it returns the id of the first
\* individual; it returns null only for the empty list
C13_DefaultRootIsFirstNamed ==
    (rootFound.called /\ DefaultPreferences)
        => /\ ~rootFound.scored
           /\ (rootFound.id = NULL) <=> (rootCall.individuals = <<>>)
           /\ NamedPositions # {}
                 => \E k \in NamedPositions :
                       /\ \A j \in NamedPositions : k <= j
                       /\ rootFound.id = rootCall.individuals[k].id
           /\ (NamedPositions = {} /\ rootCall.individuals # <<>>)
                 => rootFound.id = rootCall.individuals[1].id

\* the first individual has no name and a later one has: the later one is
\* returned
C13_Witness ==
    /\ rootFound.called
    /\ rootCall.preferences.given = {}
    /\ NamedPositions # {}
    /\ 1 \notin NamedPositions
    /\ rootFound.id # rootCall.individuals[1].id
    /\ rootFound.id # NULL

\* a list of trees without the identities of its objects
RECURSIVE Shape(_)
Shape(nodes) ==
    [k \in 1..Len(nodes) |->
        [nodes[k] EXCEPT
            !.oid         = 0,
            !.childrenRef = IF @ = <<>> THEN <<>> ELSE ArrayRef(0, @[1].array),
            !.parentsRef  = IF @ = <<>> THEN <<>> ELSE ArrayRef(0, @[1].array),
            !.children    = Shape(@),
            !.parents     = Shape(@)]]

\* the node objects, the array objects and the event objects of a tree
NodeObjects(t) == {n.oid : n \in NodesOf(t.root)}

ArrayObjects(t) ==
    UNION {{n.childrenRef[k] : k \in 1..Len(n.childrenRef)}
           \cup {n.parentsRef[k] : k \in 1..Len(n.parentsRef)} : n \in NodesOf(t.root)}

EventObjects(t) == UNION {{n.birthRef, n.deathRef} : n \in NodesOf(t.root)}

Rebuilt == tpc = "rebuilt"

\* C14: a second buildTree call with the arguments of the first, on a builder
\* nothing else touched, raises the same error or returns a tree equal in
\* structure and metadata to the first and made of other node objects
C14_RepeatedBuildEqualDistinct ==
    (Rebuilt /\ call = prevCall)
        => /\ tree.raised = prevTree.raised
           /\ tree.error = prevTree.error
           /\ ~tree.raised
                 => /\ Shape(tree.root) = Shape(prevTree.root)
                    /\ tree.metadata = prevTree.metadata
                    /\ NodeObjects(tree) \cap NodeObjects(prevTree) = {}

\* the same tree of several nodes was built twice
C14_Witness ==
    /\ Rebuilt
    /\ call = prevCall
    /\ ~tree.raised
    /\ Cardinality(NodesOf(tree.root)) >= 3
    /\ Cardinality(NodeObjects(tree) \cup NodeObjects(prevTree)) >= 6

\* C15: two trees returned by buildTree calls share no mutable object: no
\* node, no children or parents list, no birth or death event object, also
\* when the same individual is in both
C15_NoSharedMutableObjects ==
    (Rebuilt /\ ~tree.raised /\ ~prevTree.raised)
        => /\ NodeObjects(tree) \cap NodeObjects(prevTree) = {}
           /\ ArrayObjects(tree) \cap ArrayObjects(prevTree) = {}
           /\ EventObjects(tree) \cap EventObjects(prevTree) = {}

\* the marker an event tag pushes in a record of the type
MarkerTag(type, marker) ==
    CASE type = "individual" /\ marker = "birth"    -> TAG_BIRT
      [] type = "individual" /\ marker = "death"    -> TAG_DEAT
      [] type = "family"     /\ marker = "marriage" -> TAG_MARR
      [] type = "family"     /\ marker = "divorce"  -> TAG_DIV
      [] OTHER -> <<>>

\* among the lines handled so far there is an event line of the marker, at a
\* level L >= 1, that no later line closed: every line after it is deeper
\* than L
OpenEvent(marker) ==
    \E i \in 1..(idx - 1) :
       /\ lines[i].level >= 1
       /\ lines[i].tag = MarkerTag(currentRecord.type, marker)
       /\ \A j \in (i + 1)..(idx - 1) : lines[j].level > lines[i].level

\* C16: while the lines of a record are handled, every marker on the context
\* stack belongs to an event line at some level L >= 1 that no later line of
\* level <= L followed: a line of level <= L removes the marker
C16_MarkerRemovedAtSameLevel ==
    pc = "parseLines"
        => \A p \in 2..Len(recordStack) : OpenEvent(recordStack[p])

\* the lines of the record are those of the pattern: event tags at level 1,
\* DATE and PLAC at level 2
EventPattern ==
    \A i \in 2..Len(lines) :
       \/ lines[i].level = 1 /\ lines[i].tag \in {TAG_BIRT, TAG_DEAT, TAG_MARR, TAG_DIV}
       \/ lines[i].level = 2 /\ lines[i].tag \in {TAG_DATE, TAG_PLAC}

\* the level-2 lines with the field tag whose nearest level-1 line before
\* them has the event tag
LinesUnder(eventTag, fieldTag) ==
    {j \in 2..Len(lines) :
        /\ lines[j].level = 2
        /\ lines[j].tag = fieldTag
        /\ \E i \in 2..(j - 1) :
              /\ lines[i].level = 1
              /\ lines[i].tag = eventTag
              /\ \A k \in (i + 1)..(j - 1) : lines[k].level = 2}

\* the value of the last of these lines, none when there is no such line
LastValueUnder(eventTag, fieldTag, none) ==
    IF LinesUnder(eventTag, fieldTag) = {} THEN none
    ELSE lines[CHOOSE j \in LinesUnder(eventTag, fieldTag) :
                  \A k \in LinesUnder(eventTag, fieldTag) : k <= j].value

\* the event holds the date and the place its own lines give
EventHolds(event, eventTag) ==
    /\ event.date = parseDate(LastValueUnder(eventTag, TAG_DATE, <<>>))
    /\ event.place = LastValueUnder(eventTag, TAG_PLAC, NULL)

\* C17: in a record of level-1 event tags with level-2 DATE and PLAC lines,
\* birth holds the date and place of the lines under BIRT and death those of
\* the lines under DEAT, so the lines under a later DEAT do not overwrite
\* birth; marriage and divorce of a family record likewise
C17_EventsKeepTheirOwnLines ==
    (Succeeded /\ EventPattern)
        => /\ \A k \in 1..Len(result.individuals) :
                 /\ EventHolds(result.individuals[k].birth, TAG_BIRT)
                 /\ EventHolds(result.individuals[k].death, TAG_DEAT)
           /\ \A k \in 1..Len(result.families) :
                 /\ EventHolds(result.families[k].marriage, TAG_MARR)
                 /\ EventHolds(result.families[k].divorce, TAG_DIV)

\* BIRT with its date, then DEAT with another date: both are kept
C17_Witness ==
    /\ Succeeded
    /\ EventPattern
    /\ Len(result.individuals) = 1
    /\ result.individuals[1].birth.date = parseDate(<<"1", "9", "0", "0">>)
    /\ result.individuals[1].death.date = parseDate(<<"1", "9", "5", "0">>)
    /\ lines[2].tag = TAG_BIRT
    /\ lines[4].tag = TAG_DEAT

\* the individual of a node and the family its first child-family entry
\* names, as the builder's maps hold them
PersonOf(n) == MapGet(tbIndividuals, n.id)

\* the parent the id names, when the ancestor build makes a node for it one
\* generation above n: the id is set, known and within the depth bound
ParentBuilt(n, parentId) ==
    /\ Truthy(parentId)
    /\ MapHas(tbIndividuals, parentId)
    /\ n.generation + 1 < call.maxGenerations

\* the ids and relationships the parents of the node must have, from its
\* first child-family entry alone
ExpectedParents(n) ==
    IF /\ PersonOf(n).families.child # <<>>
       /\ MapHas(tbFamilies, PersonOf(n).families.child[1])
    THEN LET family == MapGet(tbFamilies, PersonOf(n).families.child[1])
         IN (IF ParentBuilt(n, family.husband)
             THEN << [id |-> family.husband, relationship |-> "father"] >>
             ELSE <<>>)
            \o (IF ParentBuilt(n, family.wife)
                THEN << [id |-> family.wife, relationship |-> "mother"] >>
                ELSE <<>>)
    ELSE <<>>

IdsAndRelationships(nodes) ==
    [k \in 1..Len(nodes) |-> [id |-> nodes[k].id, relationship |-> nodes[k].relationship]]

AncestorsBuilt == Built /\ call.treeType = "ancestors"

\* C18: in an ancestor tree the parents of every node are those of the
\* individual's first child-family entry and of no other entry: the husband
\* as 'father' before the wife as 'mother', at most two; there are none when
\* that entry names no family of the mapping; children is the very list
\* parents is
C18_ParentsFromFirstChildFamily ==
    AncestorsBuilt
        => \A n \in NodesOf(tree.root) :
              /\ IdsAndRelationships(n.parents) = ExpectedParents(n)
              /\ Len(n.parents) <= 2
              /\ n.children = n.parents
              /\ n.childrenRef = n.parentsRef

\* a node whose first child-family entry is unknown and whose second entry
\* has a parent to give stays without parents, and a node with two entries
\* takes the parents of the first
C18_Witness ==
    /\ AncestorsBuilt
    /\ \E n \in NodesOf(tree.root) :
          /\ Len(PersonOf(n).families.child) = 2
          /\ ~MapHas(tbFamilies, PersonOf(n).families.child[1])
          /\ MapHas(tbFamilies, PersonOf(n).families.child[2])
          /\ ParentBuilt(n, MapGet(tbFamilies, PersonOf(n).families.child[2]).wife)
          /\ n.parents = <<>>
    /\ \E n \in NodesOf(tree.root) :
          /\ Len(n.parents) = 2
          /\ n.parents[1].relationship = "father"
          /\ n.parents[2].relationship = "mother"
          /\ n.childrenRef # <<>>

RECURSIVE ConcatAll(_)
ConcatAll(seqs) ==
    IF seqs = <<>> THEN <<>> ELSE Head(seqs) \o ConcatAll(Tail(seqs))

KnownPerson(id) == MapHas(tbIndividuals, id)

\* the child ids of the families the person is a spouse of, in family order
\* then child order
SpouseFamilyChildIds(person) ==
    ConcatAll([k \in 1..Len(person.families.spouse) |->
                  IF MapHas(tbFamilies, person.families.spouse[k])
                  THEN MapGet(tbFamilies, person.families.spouse[k]).children
                  ELSE <<>>])

\* the ids the children of the node must have: those child ids that are in
\* the mapping, none when the children would lie at the depth bound
ExpectedChildIds(n) ==
    IF n.generation + 1 < call.maxGenerations
    THEN SelectSeq(SpouseFamilyChildIds(PersonOf(n)), KnownPerson)
    ELSE <<>>

DescendantsBuilt == Built /\ call.treeType = "descendants"

\* the builder holds the six individuals of the sample file: the graphs
\* have three
SampleLoaded == Len(tbIndividuals) = 6 /\ Len(tbFamilies) = 2

\* C19: in a descendant tree the children of every node are the nodes of the
\* child ids of all the individual's spouse families, in family order then
\* child order, each a 'child' one generation deeper; ids missing from the
\* mapping or at the depth bound are left out and children is null when none
\* remains.  On the sample file the root @I1@ has exactly the children @I3@
\* and @I4@, both leaves.
C19_ChildrenFromSpouseFamilies ==
    DescendantsBuilt
        => /\ \A n \in NodesOf(tree.root) :
                 /\ [k \in 1..Len(n.children) |-> n.children[k].id] = ExpectedChildIds(n)
                 /\ \A k \in 1..Len(n.children) :
                       /\ n.children[k].relationship = "child"
                       /\ n.children[k].generation = n.generation + 1
                 /\ (n.childrenRef = <<>>) <=> (ExpectedChildIds(n) = <<>>)
                 /\ n.parents = <<>>
           /\ (SampleLoaded /\ call.rootPersonId = I1 /\ call.maxGenerations >= 2)
                 => /\ [k \in 1..Len(tree.root[1].children) |-> tree.root[1].children[k].id]
                          = <<I3, <<"@", "I", "4", "@">> >>
                    /\ \A k \in 1..Len(tree.root[1].children) :
                          tree.root[1].children[k].children = <<>>

\* a root with two spouse families: the children of the first come before
\* those of the second and a child id without a record is left out
C19_Witness ==
    /\ DescendantsBuilt
    /\ Len(tree.root) = 1
    /\ PersonOf(tree.root[1]).families.spouse = <<F2, F1>>
    /\ MapGet(tbFamilies, F2).children = <<I9, I1>>
    /\ ~KnownPerson(I9)
    /\ Len(MapGet(tbFamilies, F1).children) >= 1
    /\ Len(tree.root[1].children) = 1 + Len(MapGet(tbFamilies, F1).children)
    /\ tree.root[1].children[1].id = I1
    /\ tree.root[1].children[2].id = MapGet(tbFamilies, F1).children[1]

BothBuilt == Built /\ call.treeType = "both"

\* the ancestor tree and the descendant tree of the call, each built alone
\* with the maxGenerations of the call
AncestorsAlone ==
    buildAncestorTree(tbIndividuals, tbFamilies, call.maxGenerations,
                      call.rootPersonId, 0, 1)

DescendantsAlone ==
    buildDescendantTree(tbIndividuals, tbFamilies, call.maxGenerations,
                        call.rootPersonId, 0, 1 + Created(AncestorsAlone))

WithoutChildren(n) == [n EXCEPT !.children = <<>>, !.childrenRef = <<>>]

\* C20: the root of a combined tree is the root of the ancestor tree; its
\* children are the children of that root followed by the children of the
\* descendant tree's root; the descendant tree's root node is nowhere in the
\* result; both trees go as deep as the whole maxGenerations lets them
C20_CombinedTreeMerge ==
    (BothBuilt /\ tree.root # <<>>)
        => /\ AncestorsAlone # <<>>
           /\ DescendantsAlone # <<>>
           /\ WithoutChildren(tree.root[1]) = WithoutChildren(AncestorsAlone[1])
           /\ tree.root[1].children
                 = AncestorsAlone[1].children \o DescendantsAlone[1].children
           /\ DescendantsAlone[1].oid \notin NodeObjects(tree)
           /\ \A n \in NodesOf(tree.root) : n.generation < call.maxGenerations

\* a combined tree of three generations or more that has, in the last
\* generation the bound allows, an ancestor and a descendant
C20_Witness ==
    /\ BothBuilt
    /\ tree.root # <<>>
    /\ call.maxGenerations >= 3
    /\ Len(tree.root[1].parents) >= 1
    /\ Len(tree.root[1].children) > Len(tree.root[1].parents)
    /\ \E n \in NodesOf(tree.root[1].parents) :
          n.generation = call.maxGenerations - 1
    /\ \E n \in NodesOf(SubSeq(tree.root[1].children, Len(tree.root[1].parents) + 1,
                               Len(tree.root[1].children))) :
          n.generation = call.maxGenerations - 1

Building == tpc = "building"

\* the most calls one call of the recursion makes in the builder's graph
Branching ==
    LET counts == {2} \cup {Len(DescendantCallees(tbIndividuals[k], 1, 0)) :
                               k \in 1..Len(tbIndividuals)}
    IN CHOOSE b \in counts : \A c \in counts : c <= b

RECURSIVE Power(_, _)
Power(b, e) == IF e <= 0 THEN 1 ELSE b * Power(b, e - 1)

\* what is left to do: a pending call for a generation weighs more than all
\* the calls it can make for the next generation
RECURSIVE Remaining(_)
Remaining(fs) ==
    IF fs = <<>> THEN 0
    ELSE Power(Branching + 1, call.maxGenerations - Head(fs).generation)
         + Remaining(Tail(fs))

\* C21: buildTree terminates on every graph, cycles included: no call of
\* the recursion is made for a generation beyond maxGenerations, every call
\* leaves strictly less to do, a build with no call left returns, and the
\* calls that made a node are the nodes the build allocated
C21_BuildTreeTerminates ==
    /\ [](Building => \A k \in 1..Len(frames) :
                         /\ frames[k].generation >= 0
                         /\ frames[k].generation <= call.maxGenerations)
    /\ [][Building => \/ /\ frames # <<>>
                          /\ tpc' = "building"
                          /\ Remaining(frames') < Remaining(frames)
                       \/ /\ frames = <<>>
                          /\ tpc' = "built"]_vars
    /\ [](Built => created = NodesAllocated(tbIndividuals, tbFamilies, call.rootPersonId,
                                            [treeType |-> call.treeType,
                                             maxGenerations |-> call.maxGenerations,
                                             given |-> {"treeType", "maxGenerations"}]))

\* a tree was built over a cycle: the root is among its own ancestors or
\* descendants, as deep as the bound lets the recursion go
C21_Witness ==
    /\ Built
    /\ frames = <<>>
    /\ call.maxGenerations >= 3
    /\ \E n \in NodesOf(tree.root) :
          /\ n.id = call.rootPersonId
          /\ n.generation = call.maxGenerations - 1

\* C22: running the relationship-linking post-pass a second time, on the
\* mappings a successful parse returned, changes no family (husband, wife and
\* children stay the same) and no individual
C22_LinkPassIdempotent ==
    Succeeded =>
        /\ linkFamilyRelationships(result.individuals, result.families) = result.families
        /\ result.individuals = individuals

\* a parse whose post-pass filled a husband slot and a children list
C22_Witness ==
    /\ Succeeded
    /\ MapHas(result.families, F1)
    /\ MapGet(result.families, F1).husband = I1
    /\ Includes(MapGet(result.families, F1).children, I1)
    /\ \E before \in {FamiliesBeforeLink} :
          /\ ~Truthy(MapGet(before, F1).husband)
          /\ MapGet(before, F1).children = <<>>

\* the orders in which the individuals of a mapping can be processed
ProcessingOrders(inds) ==
    { [k \in 1..Len(inds) |-> inds[p[k]]] :
        p \in { q \in [1..Len(inds) -> 1..Len(inds)] :
                  \A i, j \in 1..Len(inds) : q[i] = q[j] => i = j } }

\* two individuals of the given sexes both name, as a spouse family, a family
\* whose slot for the first sex is empty before the post-pass
SlotClaimedTwice(inds, fams, sexA, sexB) ==
    \E i, j \in 1..Len(inds) :
        /\ i # j
        /\ inds[i].sex = sexA
        /\ inds[j].sex = sexB
        /\ \E f \in 1..Len(fams) :
              /\ Includes(inds[i].families.spouse, fams[f].id)
              /\ Includes(inds[j].families.spouse, fams[f].id)
              /\ \/ sexA = <<"M">> /\ ~Truthy(fams[f].husband)
                 \/ sexA = <<"F">> /\ ~Truthy(fams[f].wife)

OppositeSexClaim(inds, fams) ==
    \/ SlotClaimedTwice(inds, fams, <<"M">>, <<"F">>)
    \/ SlotClaimedTwice(inds, fams, <<"F">>, <<"M">>)

SameSexClaim(inds, fams) ==
    \/ SlotClaimedTwice(inds, fams, <<"M">>, <<"M">>)
    \/ SlotClaimedTwice(inds, fams, <<"F">>, <<"F">>)

\* the elements of a list
Elements(seq) == { seq[k] : k \in 1..Len(seq) }

\* the same husband, wife and set of children in every family
SameCouplesAndChildSets(famsA, famsB) ==
    /\ Len(famsA) = Len(famsB)
    /\ \A f \in 1..Len(famsA) :
          /\ famsA[f].id = famsB[f].id
          /\ famsA[f].husband = famsB[f].husband
          /\ famsA[f].wife = famsB[f].wife
          /\ Elements(famsA[f].children) = Elements(famsB[f].children)

\* C23 as stated: the families after the post-pass (husband, wife, children)
\* are the same for every processing order of the individuals, unless two
\* opposite-sex individuals both claim an empty slot of the same family
C23_OrderIndependentUnlessOppositeSex ==
    Succeeded =>
        \E before \in {FamiliesBeforeLink} :
            ~OppositeSexClaim(individuals, before) =>
                \A order \in ProcessingOrders(individuals) :
                    linkFamilyRelationships(order, before) = result.families

\* C23 amended: the husband, the wife and the set of children of every family
\* after the post-pass are the same for every processing order of the
\* individuals, unless two individuals of the same sex (both M or both F) name
\* as spouse family a family whose slot for that sex is empty; the children the
\* pass appends are in processing order
C23_OrderIndependentUnlessSameSex ==
    Succeeded =>
        \E before \in {FamiliesBeforeLink} :
            /\ ~SameSexClaim(individuals, before) =>
                  \A order \in ProcessingOrders(individuals) :
                      SameCouplesAndChildSets(linkFamilyRelationships(order, before),
                                              result.families)
            /\ \A order \in ProcessingOrders(individuals) :
                  \A f \in 1..Len(before) :
                      \E linked \in {linkFamilyRelationships(order, before)[f].children} :
                          \A a, b \in 1..Len(linked) :
                              (a < b /\ a > Len(before[f].children)) =>
                                  \E i, j \in 1..Len(order) :
                                      i < j /\ order[i].id = linked[a]
                                            /\ order[j].id = linked[b]

\* a male and a female individual both claimed the empty slots of one family,
\* and two individuals were appended to its children
C23_Witness ==
    /\ Succeeded
    /\ Len(individuals) = 2
    /\ individuals[1].sex = <<"M">>
    /\ individuals[2].sex = <<"F">>
    /\ MapHas(result.families, F1)
    /\ MapGet(result.families, F1).husband = I1
    /\ MapGet(result.families, F1).wife = I2
    /\ MapGet(result.families, F1).children = <<I1, I2>>
    /\ \E before \in {FamiliesBeforeLink} :
          /\ OppositeSexClaim(individuals, before)
          /\ ~SameSexClaim(individuals, before)
          /\ MapGet(before, F1).children = <<>>

\* the en dash of the documented format, a character other than "-"
EN_DASH == <<"en dash">>

\* the life-dates string documented for a person
DocumentedLifeDates(person) ==
    IF person.birth.date # NoDate /\ person.death.date # NoDate
    THEN <<"(">> \o person.birth.date[1].display \o <<" ">> \o EN_DASH \o <<" ">>
               \o DisplayOr(person.death.date, <<"?">>) \o <<")">>
    ELSE IF person.birth.date # NoDate
         THEN <<"(", "b", ".", " ">> \o person.birth.date[1].display \o <<")">>
         ELSE <<>>

\* C24: the life-dates string of a node is "(birth [en dash] death)" when
\* both display strings are known, "(b. birth)" when only the birth display
\* string is known, whatever its text, and empty when neither is known
C24_LifeDatesFormat ==
    (Built /\ tree.root # <<>>) =>
        \E person \in {MapGet(tbIndividuals, tree.root[1].id)} :
            (person.birth.date # NoDate \/ person.death.date = NoDate) =>
                tree.root[1].dates = DocumentedLifeDates(person)

\* C25: metadata.totalNodes of a returned tree is the number of distinct
\* TreeNode objects in it, for ancestor, descendant and combined trees
C25_TotalNodesCountsDistinctNodes ==
    Built => tree.metadata.totalNodes = Cardinality(NodeObjects(tree))

\* C26: after parse, the sex of every individual is one of M, F, U,
\* whatever the SEX lines of the input contain
C26_SexIsMFU ==
    Succeeded =>
        \A k \in 1..Len(result.individuals) :
            result.individuals[k].sex \in { <<"M">>, <<"F">>, <<"U">> }

\* C27: the spouses list of a tree node never contains the node's own
\* individual
C27_NoSelfSpouse ==
    Built =>
        \A n \in NodesOf(tree.root) :
            \A k \in 1..Len(n.spouses) : n.spouses[k].id # n.id

\* the line about to be handled lies two or more levels below an event line
\* that no later line closed
NestedDeeperInEvent ==
    \E i \in 1..(idx - 1) :
       /\ lines[i].level >= 1
       /\ lines[i].tag \in {TAG_BIRT, TAG_DEAT, TAG_MARR, TAG_DIV}
       /\ \A j \in (i + 1)..(idx - 1) : lines[j].level > lines[i].level
       /\ lines[idx].level >= lines[i].level + 2

\* C28: a DATE or PLAC line nested deeper inside an event than one level
\* below the event tag changes no stored date or place: handling it leaves
\* the individuals and the families as they were
C28_DeeperLinesDoNotOverwrite ==
    [][(/\ pc = "parseLines"
        /\ idx <= Len(lines)
        /\ lines[idx].tag \in {TAG_DATE, TAG_PLAC}
        /\ NestedDeeperInEvent)
           => /\ individuals' = individuals
              /\ families' = families]_vars

\* C29: whenever buildTree returns (root id present, valid tree type), the
\* root of the result is a node with the id of the root person and
\* generation 0, for every maxGenerations, 0 included
C29_RootNodeAlwaysReturned ==
    Built =>
        /\ tree.root # <<>>
        /\ tree.root[1].id = call.rootPersonId
        /\ tree.root[1].generation = 0

\* C30: in the popup, once clearSelectedFile has run, parsedData stays null
\* and the tree controls stay hidden until the user selects another file,
\* whatever the order of the clear click and the callbacks of the file
\* readers; and the parsed data is that of the most recently selected file
C30_ClearedStaysCleared ==
    /\ popup.cleared => /\ popup.parsedData = <<>>
                        /\ popup.controls = "none"
    /\ popup.parsedData # <<>> => popup.parsedData[1].selection = popup.selections

====
